---- MODULE Spec2Model ----
(***************************************************************************)
(* A model of arta: the Environment (context::Context), the Container      *)
(* Registry (container::ContainerManager), the action providers            *)
(* (engine::actions) and the interpreter entry points that reach them      *)
(* (engine::executor).                                                     *)
(***************************************************************************)
EXTENDS Integers, Sequences, FiniteSets, TLC

VARIABLES
    context,      \* the Environment under test: context::Context
    containers,   \* ContainerManager.containers : name -> Container
    active,       \* ContainerManager.active
    dir,          \* entries of the directory DELETE FILES scans, in read_dir order
    procs,        \* the process table KILL PROCESS scans, in iteration order
    clock,        \* chrono::Utc::now()
    pending,      \* the command and run policy a one-command run was started with
    last,         \* the last call made and what it returned
    before,       \* the part of the state the last call started from
    validation,   \* a validate_script call: its arguments, its errors, its loop index
    monitor,      \* a LIFE block being run: the monitor's fields and the loop's position
    run           \* a ScriptRunner::run_script call: its script, its locals, its result

vars == <<context, containers, active, dir, procs, clock, pending, last, before,
          validation, monitor, run>>

\* ---------------------------------------------------------------- bounds
MaxHistory == 4
MaxClock == 1
MaxContainers == 3

None == "None"

\* Option<T> where T is a record: Nothing, or Some(x) holding one x.
Nothing == {}
Some(x) == {x}
Unwrap(o) == CHOOSE x \in o : TRUE
Range(s) == { s[i] : i \in DOMAIN s }
\* The result of resolving a path that names nothing: not a path of the tree.
NoPath == << "?" >>

\* ------------------------------------------------------------ file tree
\* An absolute path is the sequence of its components below "/".
Dirs == { <<>>, <<"home">>, <<"home", "proj">>, <<"data">> }
Files == { <<"home", "readme">>, <<"home", "proj", "notes">> }
SymlinkSources == { <<"home", "link">> }
SymlinkTarget(p) == <<"home", "proj">>

\* The process start folder, std::env::current_dir().
StartDir == <<"home">>

Parent(p) == IF p = <<>> THEN <<>> ELSE SubSeq(p, 1, Len(p) - 1)

\* What the operating system resolves an absolute path to: the canonical
\* path of the node it names (symlinks followed, ".." and "." removed), or
\* NoPath when some component does not exist or a file is used as a folder.
RECURSIVE Walk(_, _)
Walk(cur, rest) ==
    IF rest = <<>> THEN cur
    ELSE IF cur \notin Dirs THEN NoPath
    ELSE LET c == Head(rest)
             cand == Append(cur, c)
         IN  IF c = ".." THEN Walk(Parent(cur), Tail(rest))
             ELSE IF c = "." THEN Walk(cur, Tail(rest))
             ELSE IF cand \in SymlinkSources THEN Walk(SymlinkTarget(cand), Tail(rest))
             ELSE IF cand \in Dirs \cup Files THEN Walk(cand, Tail(rest))
             ELSE NoPath

canonicalize(p) == Walk(<<>>, p)
exists(p) == canonicalize(p) # NoPath
is_dir(p) == canonicalize(p) \in Dirs
is_file(p) == canonicalize(p) \in Files

\* A path argument as written: absolute or relative, and its components.
PathArg(abs, comps) == [abs |-> abs, comps |-> comps]

PathInputs ==
    { PathArg(FALSE, <<"proj">>), PathArg(FALSE, <<"link">>),
      PathArg(FALSE, <<"..">>), PathArg(FALSE, <<"readme">>),
      PathArg(FALSE, <<"missing">>),
      PathArg(TRUE, <<"home", "proj", "notes">>) }

\* -------------------------------------------------------------- Context
VarNames == { "x" }
VarValues == { [kind |-> "Number", v |-> 1], [kind |-> "Boolean", v |-> TRUE] }

ContextDefault ==
    [ folder_stack |-> << StartDir >>,
      current_file |-> None,
      variables |-> << >>,
      history |-> << >> ]

Ok(self) == [ok |-> TRUE, err |-> None, self |-> self]
Err(kind, self) == [ok |-> FALSE, err |-> kind, self |-> self]

HistoryEntry(action, path, now) ==
    [action |-> action, path |-> path, timestamp |-> now]

current_folder(self) ==
    IF Len(self.folder_stack) > 0
    THEN self.folder_stack[Len(self.folder_stack)]
    ELSE <<>>

folder_depth(self) == Len(self.folder_stack)

resolve_path(self, path) ==
    IF path.abs THEN path.comps ELSE current_folder(self) \o path.comps

\* enter_folder without the line that clears the focused file.
enter_folder_keepsFile(self, path, now) ==
    LET p == resolve_path(self, path)
        canonical == canonicalize(p)
    IN  IF ~exists(p) THEN Err("PathNotFound", self)
        ELSE IF ~is_dir(p) THEN Err("ExecutionError", self)
        ELSE Ok([self EXCEPT
                    !.folder_stack = Append(@, canonical),
                    !.history = Append(@, HistoryEntry("ENTER FOLDER", canonical, now))])

enter_folder(self, path, now) ==
    LET p == resolve_path(self, path)
        canonical == canonicalize(p)
    IN  IF ~exists(p) THEN Err("PathNotFound", self)
        ELSE IF ~is_dir(p) THEN Err("ExecutionError", self)
        ELSE Ok([self EXCEPT
                    !.folder_stack = Append(@, canonical),
                    !.current_file = None,
                    !.history = Append(@, HistoryEntry("ENTER FOLDER", canonical, now))])

\* enter_file without the check that the path names a file.
enter_file_acceptsFolder(self, path, now) ==
    LET p == resolve_path(self, path)
        canonical == canonicalize(p)
    IN  IF ~exists(p) THEN Err("PathNotFound", self)
        ELSE Ok([self EXCEPT
                    !.current_file = canonical,
                    !.history = Append(@, HistoryEntry("ENTER FILE", canonical, now))])

enter_file(self, path, now) ==
    LET p == resolve_path(self, path)
        canonical == canonicalize(p)
    IN  IF ~exists(p) THEN Err("PathNotFound", self)
        ELSE IF ~is_file(p) THEN Err("ExecutionError", self)
        ELSE Ok([self EXCEPT
                    !.current_file = canonical,
                    !.history = Append(@, HistoryEntry("ENTER FILE", canonical, now))])

\* exit_context with the root guard written as "len() > 0".
exit_context_popsRoot(self, now) ==
    IF self.current_file # None
    THEN Ok([self EXCEPT
                !.current_file = None,
                !.history = Append(@, HistoryEntry("EXIT FILE", None, now))])
    ELSE IF Len(self.folder_stack) > 0
    THEN LET exited == self.folder_stack[Len(self.folder_stack)]
         IN  Ok([self EXCEPT
                    !.folder_stack = SubSeq(@, 1, Len(@) - 1),
                    !.history = Append(@, HistoryEntry("EXIT FOLDER", exited, now))])
    ELSE Err("ExecutionError", self)

\* exit_context that pops the folder stack before it looks at the focused file.
exit_context_folderFirst(self, now) ==
    IF Len(self.folder_stack) > 1
    THEN LET exited == self.folder_stack[Len(self.folder_stack)]
         IN  Ok([self EXCEPT
                    !.folder_stack = SubSeq(@, 1, Len(@) - 1),
                    !.history = Append(@, HistoryEntry("EXIT FOLDER", exited, now))])
    ELSE IF self.current_file # None
    THEN Ok([self EXCEPT
                !.current_file = None,
                !.history = Append(@, HistoryEntry("EXIT FILE", None, now))])
    ELSE Err("ExecutionError", self)

exit_context(self, now) ==
    IF self.current_file # None
    THEN Ok([self EXCEPT
                !.current_file = None,
                !.history = Append(@, HistoryEntry("EXIT FILE", None, now))])
    ELSE IF Len(self.folder_stack) > 1
    THEN LET exited == self.folder_stack[Len(self.folder_stack)]
         IN  Ok([self EXCEPT
                    !.folder_stack = SubSeq(@, 1, Len(@) - 1),
                    !.history = Append(@, HistoryEntry("EXIT FOLDER", exited, now))])
    ELSE Err("ExecutionError", self)

\* reset that starts the log again with its own entry.
reset_clearsHistory(self, now) ==
    Ok([self EXCEPT
           !.folder_stack = << StartDir >>,
           !.current_file = None,
           !.history = << HistoryEntry("RESET CONTEXT", None, now) >>])

reset(self, now) ==
    Ok([self EXCEPT
           !.folder_stack = << StartDir >>,
           !.current_file = None,
           !.history = Append(@, HistoryEntry("RESET CONTEXT", None, now))])

\* HashMap::insert: the binding for name is added or replaced.
set_variable(self, name, value) ==
    [self EXCEPT !.variables =
        [n \in (DOMAIN self.variables) \cup {name} |->
            IF n = name THEN value ELSE self.variables[n]]]

\* ------------------------------------------------------ Context actions
Call(op, arg, r) == [op |-> op, arg |-> arg, ok |-> r.ok, err |-> r.err]

Room == Len(context.history) < MaxHistory

CtxStep(op, arg, r) ==
    /\ context' = r.self
    /\ last' = Call(op, arg, r)
    /\ before' = context
    /\ UNCHANGED <<containers, active, dir, procs, clock, pending, validation, monitor, run>>

EnterFolder ==
    /\ Room
    /\ \E path \in PathInputs :
          CtxStep("enter_folder", path, enter_folder(context, path, clock))

EnterFile ==
    /\ Room
    /\ \E path \in PathInputs :
          CtxStep("enter_file", path, enter_file(context, path, clock))

Exit ==
    /\ Room
    /\ CtxStep("exit_context", None, exit_context(context, clock))

Reset ==
    /\ Room
    /\ CtxStep("reset", None, reset(context, clock))

SetVariable ==
    \E name \in VarNames, value \in VarValues :
        CtxStep("set_variable", name, Ok(set_variable(context, name, value)))

Tick ==
    /\ clock < MaxClock
    /\ clock' = clock + 1
    /\ UNCHANGED <<context, containers, active, dir, procs, pending, last, before, validation, monitor, run>>

NoCall == [op |-> "new", arg |-> None, ok |-> TRUE, err |-> None]

\* A component that the behaviours of a specification do not run.
Idle == [pc |-> "idle"]

InitCtx ==
    /\ context = ContextDefault
    /\ containers = << >>
    /\ active = None
    /\ dir = << >>
    /\ procs = << >>
    /\ clock = 0
    /\ pending = << >>
    /\ last = NoCall
    /\ before = ContextDefault
    /\ validation = Idle
    /\ monitor = Idle
    /\ run = Idle

NextCtx == EnterFolder \/ EnterFile \/ Exit \/ Reset \/ SetVariable \/ Tick

SpecCtx == InitCtx /\ [][NextCtx]_vars

\* ---------------------------------------------------- ContainerManager
DEFAULT_CONTAINER == "default"

ContainerNames == { "default", "dev", "tmp", "ci" }

\* parser::ContainerOptions and its Default.
ContainerOptions == [allow_actions : BOOLEAN, readonly : BOOLEAN]
ContainerOptionsDefault == [allow_actions |-> FALSE, readonly |-> FALSE]

Container_new(name, options, now) ==
    [ name |-> name,
      context |-> ContextDefault,
      allow_actions |-> options.allow_actions,
      readonly |-> options.readonly,
      created_at |-> now ]

Container_new_default(name, now) == Container_new(name, ContainerOptionsDefault, now)

\* A ContainerManager value: the two fields of the struct.
Manager(cs, a) == [containers |-> cs, active |-> a]

ContainerManager_new(now) ==
    Manager([n \in {DEFAULT_CONTAINER} |-> Container_new_default(DEFAULT_CONTAINER, now)],
            DEFAULT_CONTAINER)

contains_key(self, name) == name \in DOMAIN self.containers

\* HashMap::insert and HashMap::remove on the containers map.
MapInsert(m, k, v) == [n \in (DOMAIN m) \cup {k} |-> IF n = k THEN v ELSE m[n]]
MapRemove(m, k) == [n \in (DOMAIN m) \ {k} |-> m[n]]

\* create without the check for an existing name: it replaces the container.
create_overwrites(self, name, options, now) ==
    Ok([self EXCEPT
           !.containers = MapInsert(@, name, Container_new(name, options, now))])

create(self, name, options, now) ==
    IF contains_key(self, name)
    THEN Err("ExecutionError", self)
    ELSE Ok([self EXCEPT
                !.containers = MapInsert(@, name, Container_new(name, options, now))])

switch(self, name) ==
    IF ~contains_key(self, name)
    THEN Err("ExecutionError", self)
    ELSE Ok([self EXCEPT !.active = name])

\* destroy without the block that switches back to the default container.
destroy_keepsActive(self, name) ==
    IF name = DEFAULT_CONTAINER THEN Err("ExecutionError", self)
    ELSE IF ~contains_key(self, name) THEN Err("ExecutionError", self)
    ELSE Ok([self EXCEPT !.containers = MapRemove(@, name)])

\* destroy without the guard on the default container.
destroy_noDefaultGuard(self, name) ==
    IF ~contains_key(self, name) THEN Err("ExecutionError", self)
    ELSE Ok([self EXCEPT
                !.active = IF self.active = name THEN DEFAULT_CONTAINER ELSE @,
                !.containers = MapRemove(@, name)])

\* destroy that switches back to the default container whichever was active.
destroy_alwaysDefault(self, name) ==
    IF name = DEFAULT_CONTAINER THEN Err("ExecutionError", self)
    ELSE IF ~contains_key(self, name) THEN Err("ExecutionError", self)
    ELSE Ok([self EXCEPT
                !.active = DEFAULT_CONTAINER,
                !.containers = MapRemove(@, name)])

destroy(self, name) ==
    IF name = DEFAULT_CONTAINER THEN Err("ExecutionError", self)
    ELSE IF ~contains_key(self, name) THEN Err("ExecutionError", self)
    ELSE Ok([self EXCEPT
                !.active = IF self.active = name THEN DEFAULT_CONTAINER ELSE @,
                !.containers = MapRemove(@, name)])

\* ContainerManager::active unwraps the lookup: it panics on a missing name.
active_container(self) ==
    IF self.active \in DOMAIN self.containers
    THEN self.containers[self.active]
    ELSE [panic |-> "unwrap on None"]

\* The DESTROY arm of the interpreter's execute_container_cmd: it holds no
\* registry, refuses "default" and reports success for any other name.
execute_container_cmd_Destroy(name, self) ==
    IF name = "default" THEN Err("ExecutionError", self) ELSE Ok(self)

\* ---------------------------------------------- ContainerManager actions
manager == Manager(containers, active)

RegStep(op, arg, r) ==
    /\ containers' = r.self.containers
    /\ active' = r.self.active
    /\ last' = Call(op, arg, r)
    /\ before' = manager
    /\ UNCHANGED <<context, dir, procs, clock, pending, validation, monitor, run>>

Create(name, options) ==
    /\ contains_key(manager, name) \/ Cardinality(DOMAIN containers) < MaxContainers
    /\ RegStep("create", name, create(manager, name, options, clock))

Switch(name) == RegStep("switch", name, switch(manager, name))

Destroy(name) == RegStep("destroy", name, destroy(manager, name))

ExecDestroy(name) ==
    RegStep("execute_container_cmd", name, execute_container_cmd_Destroy(name, manager))

InitReg ==
    /\ context = ContextDefault
    /\ containers = ContainerManager_new(0).containers
    /\ active = ContainerManager_new(0).active
    /\ dir = << >>
    /\ procs = << >>
    /\ clock = 0
    /\ pending = << >>
    /\ last = NoCall
    /\ before = ContainerManager_new(0)
    /\ validation = Idle
    /\ monitor = Idle
    /\ run = Idle

NextReg ==
    \/ \E name \in ContainerNames, options \in ContainerOptions : Create(name, options)
    \/ \E name \in ContainerNames : Switch(name)
    \/ \E name \in ContainerNames : Destroy(name)
    \/ \E name \in ContainerNames : ExecDestroy(name)
    \/ Tick

SpecReg == InitReg /\ [][NextReg]_vars

\* -------------------------------------------------------------- strings
\* A string is the sequence of its characters.
UpperChars == <<"A", "B", "C", "D", "E", "F", "G", "H", "I", "J", "K", "L", "M",
                "N", "O", "P", "Q", "R", "S", "T", "U", "V", "W", "X", "Y", "Z">>
LowerChars == <<"a", "b", "c", "d", "e", "f", "g", "h", "i", "j", "k", "l", "m",
                "n", "o", "p", "q", "r", "s", "t", "u", "v", "w", "x", "y", "z">>

LowerChar(c) ==
    IF \E i \in 1..26 : UpperChars[i] = c
    THEN LowerChars[CHOOSE i \in 1..26 : UpperChars[i] = c]
    ELSE c

to_lowercase(s) == [i \in 1..Len(s) |-> LowerChar(s[i])]

eq_ignore_ascii_case(a, b) == to_lowercase(a) = to_lowercase(b)

\* str::contains: b occurs in a as a contiguous substring.
str_contains(a, b) ==
    \E i \in 0..(Len(a) - Len(b)) : SubSeq(a, i + 1, i + Len(b)) = b

\* str::replace('%', ".*")
RECURSIVE replace_percent(_)
replace_percent(s) ==
    IF s = <<>> THEN <<>>
    ELSE IF Head(s) = "%" THEN <<".", "*">> \o replace_percent(Tail(s))
    ELSE <<Head(s)>> \o replace_percent(Tail(s))

\* One regex atom against one character, under the (?i) flag.
AtomMatches(atom, c) == atom = "." \/ LowerChar(atom) = LowerChar(c)

\* regex::Regex::is_match for "(?i)^p$", p built from literal characters,
\* "." and starred atoms (the patterns that replace_percent produces from
\* letters, digits, "." and "%").
RECURSIVE RegexMatch(_, _)
RegexMatch(s, p) ==
    IF p = <<>> THEN s = <<>>
    ELSE IF Len(p) >= 2 /\ p[2] = "*"
    THEN \/ RegexMatch(s, SubSeq(p, 3, Len(p)))
         \/ (s # <<>> /\ AtomMatches(p[1], Head(s)) /\ RegexMatch(Tail(s), p))
    ELSE s # <<>> /\ AtomMatches(p[1], Head(s)) /\ RegexMatch(Tail(s), Tail(p))

\* Path::extension of a file name: the text after the last "." unless the
\* name has no "." or its only "." is the first character.
DotPositions(name) == { i \in 1..Len(name) : name[i] = "." }

extension(name) ==
    LET dots == DotPositions(name) \ {1}
    IN  IF dots = {} THEN <<>>
        ELSE LET d == CHOOSE i \in dots : \A j \in dots : j <= i
             IN  SubSeq(name, d + 1, Len(name))

\* The decimal digits of a natural number.
DigitChars == <<"0", "1", "2", "3", "4", "5", "6", "7", "8", "9">>

RECURSIVE Digits(_)
Digits(n) ==
    IF n < 10 THEN <<DigitChars[n + 1]>>
    ELSE Digits(n \div 10) \o <<DigitChars[(n % 10) + 1]>>

S_size == <<"s", "i", "z", "e">>
S_SIZE == <<"S", "I", "Z", "E">>
S_name == <<"n", "a", "m", "e">>
S_extension == <<"e", "x", "t", "e", "n", "s", "i", "o", "n">>
S_ext == <<"e", "x", "t">>
S_owner == <<"o", "w", "n", "e", "r">>
S_pid == <<"p", "i", "d">>
S_cpu == <<"c", "p", "u">>
S_memory == <<"m", "e", "m", "o", "r", "y">>
S_a_txt == <<"a", ".", "t", "x", "t">>
S_B_LOG == <<"B", ".", "L", "O", "G">>
S_sub == <<"s", "u", "b">>
S_c_txt == <<"c", ".", "t", "x", "t">>
S_txt == <<"t", "x", "t">>
S_log == <<"l", "o", "g">>
S_root == <<"r", "o", "o", "t">>
S_pct_txt == <<"%", ".", "t", "x", "t">>
S_tmp_suffix == <<".", "t", "m", "p">>
S_node == <<"n", "o", "d", "e">>
S_systemd == <<"s", "y", "s", "t", "e", "m", "d">>
S_python == <<"p", "y", "t", "h", "o", "n">>
S_Xinit == <<"X", "i", "n", "i", "t">>
S_worker == <<"w", "o", "r", "k", "e", "r">>
S_d == <<"d">>

\* The names is_protected_process refuses to select.
protected ==
    << <<"i", "n", "i", "t">>,
       <<"s", "y", "s", "t", "e", "m", "d">>,
       <<"k", "e", "r", "n", "e", "l">>,
       <<"l", "a", "u", "n", "c", "h", "d">>,
       <<"W", "i", "n", "d", "o", "w", "S", "e", "r", "v", "e", "r">>,
       <<"l", "o", "g", "i", "n", "w", "i", "n", "d", "o", "w">>,
       <<"k", "e", "r", "n", "e", "l", "_", "t", "a", "s", "k">>,
       <<"s", "y", "s", "l", "o", "g", "d">>,
       <<"n", "o", "t", "i", "f", "y", "d">> >>

\* -------------------------------------------------------------- filters
\* parser::Value.  A Number carries twice its value, so that halves are
\* exact: Number(3) is 1.5.  Sizes stay below 2^53, where u64 -> f64 is exact.
VString(s) == [kind |-> "String", v |-> s]
VNumber(h) == [kind |-> "Number", v |-> h]
VSize(n) == [kind |-> "Size", v |-> n]

Condition(field, operator, value) ==
    [field |-> field, operator |-> operator, value |-> value]

ConditionExpr(condition, next) == [condition |-> condition, next |-> next]

WhereClause(conditions) == [conditions |-> conditions]

\* `n as u64` for an f64 given in halves: truncation toward zero, saturating
\* at zero for negative values.
f64_as_u64(h) == IF h < 0 THEN 0 ELSE h \div 2

\* Both arguments are f64 values given in halves; distinct halves differ by
\* more than f64::EPSILON.
compare_numbers(left, right, op) ==
    CASE op = "Equal" -> left = right
      [] op = "NotEqual" -> left # right
      [] op = "GreaterThan" -> left > right
      [] op = "GreaterThanOrEqual" -> left >= right
      [] op = "LessThan" -> left < right
      [] op = "LessThanOrEqual" -> left <= right
      [] OTHER -> FALSE

compare_strings(left, right, op) ==
    CASE op = "Equal" -> eq_ignore_ascii_case(left, right)
      [] op = "NotEqual" -> ~eq_ignore_ascii_case(left, right)
      [] op = "Like" -> RegexMatch(left, replace_percent(right))
      [] op = "Contains" -> str_contains(to_lowercase(left), to_lowercase(right))
      [] OTHER -> FALSE

\* The pairs a condition_expr parse-tree node holds, in source order:
\* <<c1, op1, c2, op2, ..., cn>>, each op "and_op" or "or_op".
parse_condition(pair) == pair

\* The loop of parse_condition_expr: every (operator, condition) pair it
\* reads overwrites `next` with a link whose own `next` is None.
RECURSIVE parse_condition_expr_loop(_, _)
parse_condition_expr_loop(inner, next) ==
    IF Len(inner) < 2 THEN next
    ELSE LET logical_op == IF inner[1] = "and_op" THEN "And" ELSE "Or"
             next_condition == parse_condition(inner[2])
         IN  parse_condition_expr_loop(
                 SubSeq(inner, 3, Len(inner)),
                 Some([op |-> logical_op, expr |-> ConditionExpr(next_condition, Nothing)]))

parse_condition_expr(pairs) ==
    ConditionExpr(parse_condition(Head(pairs)),
                  parse_condition_expr_loop(Tail(pairs), Nothing))

parse_where_clause(pairs) == WhereClause(<< parse_condition_expr(pairs) >>)

\* parse_delete_cmd: the WHERE clause is optional.
parse_delete_where(pairs) ==
    IF pairs = << >> THEN Nothing ELSE Some(parse_where_clause(pairs))

\* --------------------------------------------------------- DELETE FILES
MAX_FILES_PER_OPERATION == 100

\* A directory entry as the scan sees it.  `locked` says fs::remove_file
\* fails on it.
DirEntry(name, size, is_file_, locked) ==
    [name |-> name, size |-> size, is_file |-> is_file_, locked |-> locked]

\* The one directory DELETE FILES is pointed at; its entries are `dir`.
DataDir == <<"data">>

FileInfo(base, entry) ==
    [ path |-> <<base, entry.name>>,
      name |-> entry.name,
      size |-> entry.size,
      extension |-> extension(entry.name) ]

matches_file_condition(file, condition) ==
    LET field == to_lowercase(condition.field)
        value == condition.value
    IN  IF field = S_size
        THEN IF value.kind = "Number"
             THEN compare_numbers(2 * file.size, 2 * f64_as_u64(value.v), condition.operator)
             ELSE IF value.kind = "Size"
             THEN compare_numbers(2 * file.size, 2 * value.v, condition.operator)
             ELSE FALSE
        ELSE IF field = S_name
        THEN IF value.kind = "String"
             THEN compare_strings(file.name, value.v, condition.operator)
             ELSE FALSE
        ELSE IF field = S_extension \/ field = S_ext
        THEN IF value.kind = "String"
             THEN compare_strings(file.extension, value.v, condition.operator)
             ELSE FALSE
        ELSE TRUE

matches_file_where_clause(file, where_clause) ==
    \A i \in 1..Len(where_clause.conditions) :
        matches_file_condition(file, where_clause.conditions[i].condition)

\* Vec::push of the elements of s that satisfy Keep, in order.
SelectSeqBy(s, keep) ==
    LET Kept(e) == e \in keep
    IN  SelectSeq(s, Kept)

ActionResult(action_type, affected_count, dry_run, details) ==
    [ action_type |-> action_type, affected_count |-> affected_count,
      dry_run |-> dry_run, details |-> details ]

\* What a provider call returns, and the records it leaves behind.
Done(result, self) == [ok |-> TRUE, err |-> None, result |-> result, self |-> self]
Fail(kind, self) == [ok |-> FALSE, err |-> kind, result |-> None, self |-> self]

matched_files(base, where_clause, entries) ==
    LET keep == { e \in Range(entries) :
                    /\ e.is_file
                    /\ matches_file_where_clause(FileInfo(base, e), where_clause) }
    IN  SelectSeqBy(entries, keep)

\* remove_matched without the ceiling on the matched files.
remove_matched_noCeiling(path, matched, dry_run, entries) ==
    LET removed == { e \in Range(matched) : ~e.locked }
        details == [i \in 1..Len(matched) |->
                       IF dry_run
                       THEN <<"Would delete", <<path, matched[i].name>>, matched[i].size>>
                       ELSE IF matched[i].locked
                       THEN <<"Failed to delete", <<path, matched[i].name>>>>
                       ELSE <<"Deleted", <<path, matched[i].name>>>>]
    IN  IF dry_run
        THEN Done(ActionResult("DELETE FILES", Len(matched), dry_run, details), entries)
        ELSE Done(ActionResult("DELETE FILES", Cardinality(removed), dry_run, details),
                  SelectSeqBy(entries, Range(entries) \ removed))

\* remove_matched whose removal loop does not look at dry_run.
remove_matched_ignoresDryRun(path, matched, dry_run, entries) ==
    LET removed == { e \in Range(matched) : ~e.locked }
        details == [i \in 1..Len(matched) |->
                       IF matched[i].locked
                       THEN <<"Failed to delete", <<path, matched[i].name>>>>
                       ELSE <<"Deleted", <<path, matched[i].name>>>>]
    IN  IF Len(matched) > MAX_FILES_PER_OPERATION
        THEN Fail("SecurityError", entries)
        ELSE Done(ActionResult("DELETE FILES", Cardinality(removed), dry_run, details),
                  SelectSeqBy(entries, Range(entries) \ removed))

\* The part of delete_files that follows the scan: the ceiling on the
\* matched files, then the preview or the removal loop.
remove_matched(path, matched, dry_run, entries) ==
    LET removed == { e \in Range(matched) : ~e.locked }
        details == [i \in 1..Len(matched) |->
                       IF dry_run
                       THEN <<"Would delete", <<path, matched[i].name>>, matched[i].size>>
                       ELSE IF matched[i].locked
                       THEN <<"Failed to delete", <<path, matched[i].name>>>>
                       ELSE <<"Deleted", <<path, matched[i].name>>>>]
    IN  IF Len(matched) > MAX_FILES_PER_OPERATION
        THEN Fail("SecurityError", entries)
        ELSE IF dry_run
        THEN Done(ActionResult("DELETE FILES", Len(matched), dry_run, details), entries)
        ELSE Done(ActionResult("DELETE FILES", Cardinality(removed), dry_run, details),
                  SelectSeqBy(entries, Range(entries) \ removed))

delete_files(path, where_clause, dry_run, entries) ==
    IF ~exists(path) THEN Fail("PathNotFound", entries)
    ELSE IF ~is_dir(path) THEN Fail("ExecutionError", entries)
    ELSE IF where_clause = Nothing THEN Fail("SecurityError", entries)
    ELSE remove_matched(path, matched_files(path, Unwrap(where_clause), entries),
                        dry_run, entries)

\* --------------------------------------------------------- KILL PROCESS
MAX_PROCESSES_PER_OPERATION == 10

\* A process of the table.  cpu is in halves of a percent.  `signalable`
\* says the process is still there when it is signalled and that SIGTERM
\* ends it.
Process(pid, name, cpu, memory, signalable) ==
    [pid |-> pid, name |-> name, cpu |-> cpu, memory |-> memory, signalable |-> signalable]

\* is_protected_process comparing whole names.
is_protected_process_wholeName(name) ==
    \E i \in 1..Len(protected) : to_lowercase(name) = to_lowercase(protected[i])

is_protected_process(name) ==
    \E i \in 1..Len(protected) :
        str_contains(to_lowercase(name), to_lowercase(protected[i]))

matches_process_condition(proc, condition) ==
    LET field == to_lowercase(condition.field)
        value == condition.value
    IN  IF field = S_pid
        THEN IF value.kind = "Number"
             THEN compare_numbers(2 * proc.pid, value.v, condition.operator)
             ELSE FALSE
        ELSE IF field = S_name
        THEN IF value.kind = "String"
             THEN compare_strings(proc.name, value.v, condition.operator)
             ELSE FALSE
        ELSE IF field = S_cpu
        THEN IF value.kind = "Number"
             THEN compare_numbers(proc.cpu, value.v, condition.operator)
             ELSE FALSE
        ELSE IF field = S_memory
        THEN IF value.kind = "Number"
             THEN compare_numbers(2 * proc.memory, 2 * f64_as_u64(value.v), condition.operator)
             ELSE IF value.kind = "Size"
             THEN compare_numbers(2 * proc.memory, 2 * value.v, condition.operator)
             ELSE FALSE
        ELSE TRUE

matches_process_where_clause(proc, where_clause) ==
    \A i \in 1..Len(where_clause.conditions) :
        matches_process_condition(proc, where_clause.conditions[i].condition)

matched_processes(where_clause, table) ==
    LET keep == { p \in Range(table) :
                    /\ matches_process_where_clause(p, where_clause)
                    /\ ~is_protected_process(p.name) }
    IN  SelectSeqBy(table, keep)

\* The part of kill_processes that follows the scan of the process table.
kill_matched(matched, dry_run, table) ==
    LET killed == { p \in Range(matched) : p.signalable }
        lines == [i \in 1..Len(matched) |->
                     IF dry_run
                     THEN <<"Would kill", matched[i].name, matched[i].pid>>
                     ELSE IF matched[i].signalable
                     THEN <<"Killed", matched[i].name, matched[i].pid>>
                     ELSE <<"Failed to kill", matched[i].name, matched[i].pid>>]
        details == IF matched = <<>> THEN << <<"No matching processes found">> >> ELSE lines
    IN  IF Len(matched) > MAX_PROCESSES_PER_OPERATION
        THEN Fail("SecurityError", table)
        ELSE IF dry_run
        THEN Done(ActionResult("KILL PROCESS", Len(matched), dry_run, details), table)
        ELSE Done(ActionResult("KILL PROCESS", Cardinality(killed), dry_run, details),
                  SelectSeqBy(table, Range(table) \ killed))

kill_processes(where_clause, dry_run, table) ==
    kill_matched(matched_processes(where_clause, table), dry_run, table)

\* ---------------------------------------------------------- interpreter
\* engine::executor::ExecutionContext; output_format and verbose do not
\* reach the action path.
ExecutionContext(dry_run, allow_actions) ==
    [dry_run |-> dry_run, allow_actions |-> allow_actions]

ExecutionContextDefault == ExecutionContext(FALSE, FALSE)

DeleteFiles(path, where_clause) ==
    [kind |-> "DeleteFiles", path |-> path, where_clause |-> where_clause]

KillProcess(where_clause) == [kind |-> "KillProcess", where_clause |-> where_clause]

\* Display of a VariableValue that is neither text nor a path.
VariableDisplay(value) ==
    CASE value.kind = "Number" ->
            IF value.v % 2 = 0 THEN ToString(value.v \div 2)
            ELSE ToString(value.v \div 2) \o ".5"
      [] value.kind = "Boolean" -> IF value.v THEN "true" ELSE "false"
      [] OTHER -> ToString(value.v)

\* A path argument is the whole input exactly when it is relative and has
\* one component; that component is then looked up as a variable name.
resolve_variable_in_string(input, ctx) ==
    IF ~input.abs /\ Len(input.comps) = 1 /\ input.comps[1] \in DOMAIN ctx.variables
    THEN LET value == ctx.variables[input.comps[1]]
         IN  IF value.kind \in {"String", "Path"} THEN value.v
             ELSE PathArg(FALSE, << VariableDisplay(value) >>)
    ELSE input

\* `state` is what the providers act on: [dir, procs].  `invoked` says the
\* call reached a provider.
Refused(kind, state) ==
    [ok |-> FALSE, err |-> kind, result |-> None, self |-> state, invoked |-> FALSE]

\* The provider's answer, with the records it left in place of `part`.
Provided(r, state, part) ==
    [ok |-> r.ok, err |-> r.err, result |-> r.result,
     self |-> [state EXCEPT ![part] = r.self], invoked |-> TRUE]

\* execute_action whose gate tests allow_actions alone.
execute_action_gateIgnoresDryRun(action, ctx, ctxt, state) ==
    IF ~ctx.allow_actions
    THEN Refused("ActionsDisabled", state)
    ELSE IF action.kind = "DeleteFiles"
    THEN LET resolved_path == resolve_variable_in_string(action.path, ctxt)
             path == resolve_path(ctxt, resolved_path)
         IN  Provided(delete_files(path, action.where_clause, ctx.dry_run, state.dir),
                      state, "dir")
    ELSE Provided(kill_processes(action.where_clause, ctx.dry_run, state.procs),
                  state, "procs")

execute_action(action, ctx, ctxt, state) ==
    IF ~ctx.allow_actions /\ ~ctx.dry_run
    THEN Refused("ActionsDisabled", state)
    ELSE IF action.kind = "DeleteFiles"
    THEN LET resolved_path == resolve_variable_in_string(action.path, ctxt)
             path == resolve_path(ctxt, resolved_path)
         IN  Provided(delete_files(path, action.where_clause, ctx.dry_run, state.dir),
                      state, "dir")
    ELSE Provided(kill_processes(action.where_clause, ctx.dry_run, state.procs),
                  state, "procs")

\* ------------------------------------------------------- action inputs
ConditionPool ==
    { Condition(S_size, "GreaterThan", VNumber(0)),
      Condition(S_ext, "Equal", VString(S_txt)),
      Condition(S_name, "Contains", VString(S_d)),
      Condition(S_owner, "Equal", VString(S_root)) }

LogicalOps == { "and_op", "or_op" }

\* WHERE clauses as the grammar hands them to the AST builder: one
\* condition, or two conditions joined by AND or OR.
FilterPairs ==
    { <<c>> : c \in ConditionPool }
      \cup { f \in { <<c1, op, c2>> : c1 \in ConditionPool, op \in LogicalOps,
                                              c2 \in ConditionPool } : f[1] # f[3] }

E_a == DirEntry(S_a_txt, 0, TRUE, FALSE)
E_b == DirEntry(S_B_LOG, 4096, TRUE, FALSE)
E_sub == DirEntry(S_sub, 4096, FALSE, FALSE)
E_c == DirEntry(S_c_txt, 10, TRUE, TRUE)

\* One file more than DELETE FILES accepts in one operation.
BigDirectory ==
    [i \in 1..(MAX_FILES_PER_OPERATION + 1) |->
        DirEntry(<<"f">> \o Digits(i) \o S_tmp_suffix, 1, TRUE, FALSE)]


P_systemd == Process(1, S_systemd, 0, 5000, TRUE)
P_node == Process(40, S_node, 120, 1000, TRUE)
P_python == Process(41, S_python, 21, 3000, FALSE)
P_xinit == Process(42, S_Xinit, 3, 64, TRUE)

\* One unprotected process more than KILL PROCESS accepts in one operation.
BigTable ==
    << P_systemd >> \o
    [i \in 1..(MAX_PROCESSES_PER_OPERATION + 1) |->
        Process(100 + i, S_worker \o Digits(i), 2, 2048, TRUE)]

\* The machines a run starts on: a directory content with a process table.
Machine(d, t) == [dir |-> d, procs |-> t]

Machines ==
    { Machine(<< >>, << >>),
      Machine(<<E_a, E_b>>, <<P_systemd, P_node, P_python, P_xinit>>),
      Machine(<<E_b, E_sub, E_c, E_a>>, <<P_node, P_xinit, P_systemd>>),
      Machine(BigDirectory, <<P_systemd, P_node, P_python, P_xinit>>),
      Machine(<<E_b, E_sub, E_c, E_a>>, BigTable) }

DeletePaths ==
    { PathArg(TRUE, DataDir), PathArg(FALSE, <<"x">>), PathArg(TRUE, <<"home", "readme">>) }

\* An action command as the grammar hands it to the AST builder: the rule
\* that matched, the path (DELETE FILES) and the pairs of the WHERE clause
\* (none when DELETE FILES is written without WHERE).
DeleteCmd(path, pairs) == [rule |-> "delete_cmd", path |-> path, where |-> pairs]
KillCmd(pairs) == [rule |-> "kill_cmd", where |-> pairs]

parse_delete_cmd(pair) == DeleteFiles(pair.path, parse_delete_where(pair.where))
parse_kill_cmd(pair) == KillProcess(parse_where_clause(pair.where))

parse_action_cmd(pair) ==
    IF pair.rule = "delete_cmd" THEN parse_delete_cmd(pair) ELSE parse_kill_cmd(pair)

ActionInputs ==
    { DeleteCmd(p, f) : p \in DeletePaths, f \in FilterPairs \cup { << >> } }
      \cup { KillCmd(f) : f \in FilterPairs }

ExecutionContexts == { ExecutionContext(d, a) : d \in BOOLEAN, a \in BOOLEAN }

ActContexts ==
    { ContextDefault,
      set_variable(ContextDefault, "x", [kind |-> "Path", v |-> PathArg(TRUE, DataDir)]),
      set_variable(ContextDefault, "x", [kind |-> "Number", v |-> 2]) }

\* ------------------------------------------------------ action actions
system == Machine(dir, procs)

\* A run parses and executes the one command it was started with.
Executed(action, r) ==
    /\ dir' = r.self.dir
    /\ procs' = r.self.procs
    /\ last' = [op |-> "execute_action", arg |-> action,
                ok |-> r.ok, err |-> r.err, result |-> r.result, invoked |-> r.invoked]
    /\ before' = system
    /\ UNCHANGED <<context, containers, active, clock, pending, validation, monitor, run>>

ExecuteAction(source, ctx) ==
    /\ last.op = "new"
    /\ pending = [source |-> source, ctx |-> ctx]
    /\ Executed(parse_action_cmd(source),
                execute_action(parse_action_cmd(source), ctx, context, system))

ExecuteDelete ==
    /\ pending.source.rule = "delete_cmd"
    /\ ExecuteAction(pending.source, pending.ctx)

ExecuteKill ==
    /\ pending.source.rule = "kill_cmd"
    /\ ExecuteAction(pending.source, pending.ctx)

InitAct ==
    /\ context \in ActContexts
    /\ containers = << >>
    /\ active = None
    /\ \E m \in Machines : dir = m.dir /\ procs = m.procs
    /\ clock = 0
    /\ pending \in [source : ActionInputs, ctx : ExecutionContexts]
    /\ last = NoCall
    /\ before = [dir |-> dir, procs |-> procs]
    /\ validation = Idle
    /\ monitor = Idle
    /\ run = Idle

NextAct == ExecuteDelete \/ ExecuteKill

SpecAct == InitAct /\ [][NextAct]_vars

\* ------------------------------------------------------ Action properties
\* The folder a DELETE FILES command of the run is pointed at.
TargetPath ==
    resolve_path(context, resolve_variable_in_string(pending.source.path, context))

\* The files of the directory that pass the provider's filter check.
Candidates == matched_files(TargetPath, parse_where_clause(pending.source.where), dir)

\* The processes that pass the provider's filter check, protected or not.
FilterPassing ==
    { p \in Range(procs) :
        matches_process_where_clause(p, parse_where_clause(pending.source.where)) }

\* The action result lists exactly the candidate files, as a preview.
ListsCandidates(result) ==
    /\ result.dry_run
    /\ result.affected_count = Len(Candidates)
    /\ Len(result.details) = Len(Candidates)
    /\ \A i \in 1..Len(Candidates) :
          result.details[i] =
              <<"Would delete", <<TargetPath, Candidates[i].name>>, Candidates[i].size>>

\* A DELETE FILES ... WHERE ... command on an existing directory, run with
\* allow_actions unset.
GuardedDelete ==
    /\ ExecuteDelete
    /\ pending.source.where # << >>
    /\ is_dir(TargetPath)
    /\ ~pending.ctx.allow_actions

DryRunCall ==
    /\ pending.ctx.dry_run
    /\ \/ ExecuteKill
       \/ ExecuteDelete /\ pending.source.where # << >> /\ is_dir(TargetPath)

\* C2 as stated: a provider called with dry_run=true changes nothing and
\* returns a result with dry_run=true whose affected_count is the number of
\* records that matched the filter.
C2_Original ==
    [][ DryRunCall =>
          /\ dir' = dir
          /\ procs' = procs
          /\ last'.ok
          /\ last'.result.dry_run
          /\ last'.result.affected_count =
                IF pending.source.rule = "delete_cmd"
                THEN Len(Candidates)
                ELSE Cardinality(FilterPassing) ]_vars

\* The number of records a provider selects: the candidate files, or the
\* filter-passing processes that are not protected.
SelectedCount ==
    IF pending.source.rule = "delete_cmd"
    THEN Len(Candidates)
    ELSE Cardinality({ p \in FilterPassing : ~is_protected_process(p.name) })

Ceiling ==
    IF pending.source.rule = "delete_cmd"
    THEN MAX_FILES_PER_OPERATION
    ELSE MAX_PROCESSES_PER_OPERATION

\* C2 (amended): a provider called with dry_run=true changes nothing; when
\* the number of selected records (files passing the filter check, or
\* unprotected processes passing it) is within the ceiling it returns a
\* result with dry_run=true and affected_count equal to that number, and
\* otherwise it returns a SecurityError.
C2_DryRunFrame ==
    [][ DryRunCall =>
          /\ dir' = dir
          /\ procs' = procs
          /\ last'.invoked
          /\ IF SelectedCount <= Ceiling
             THEN /\ last'.ok
                  /\ last'.result.dry_run
                  /\ last'.result.affected_count = SelectedCount
             ELSE ~last'.ok /\ last'.err = "SecurityError" ]_vars

\* A preview of DELETE FILES that selected an unlocked file and kept it.
C2_Witness ==
    /\ last.op = "execute_action"
    /\ last.ok
    /\ pending.ctx.dry_run
    /\ pending.source.rule = "delete_cmd"
    /\ last.result.affected_count >= 2
    /\ \E i \in 1..Len(Candidates) : ~Candidates[i].locked
    /\ dir = before.dir

\* The conditions written in a WHERE clause, in source order.
WrittenConditions(pairs) == { pairs[i] : i \in { j \in DOMAIN pairs : j % 2 = 1 } }

AllAnd(pairs) == \A i \in DOMAIN pairs : i % 2 = 0 => pairs[i] = "and_op"

\* The records an action result names in its detail lines.
SelectedFiles(result) ==
    { e \in Range(dir) : \E i \in DOMAIN result.details :
          /\ Len(result.details[i]) >= 2
          /\ result.details[i][2] = <<TargetPath, e.name>> }

SelectedProcesses(result) ==
    { p \in Range(procs) : \E i \in DOMAIN result.details :
          /\ Len(result.details[i]) = 3
          /\ result.details[i][3] = p.pid }

\* C3: DELETE FILES and KILL PROCESS with a filter c1 AND ... AND cn never
\* select a record that fails one of the chained conditions.
C3_AndChainRestricts ==
    [][ ((ExecuteDelete \/ ExecuteKill) /\ last'.ok /\ AllAnd(pending.source.where)) =>
          IF pending.source.rule = "delete_cmd"
          THEN \A e \in SelectedFiles(last'.result) :
                  \A c \in WrittenConditions(pending.source.where) :
                      matches_file_condition(FileInfo(TargetPath, e), c)
          ELSE \A p \in SelectedProcesses(last'.result) :
                  \A c \in WrittenConditions(pending.source.where) :
                      matches_process_condition(p, c) ]_vars

\* ------------------------------------------------- Environment properties
HistoryEndsWith(actions) ==
    LET h == context.history
        n == Len(h)
        k == Len(actions)
    IN  /\ n >= k
        /\ \A i \in 1..k : h[n - k + i].action = actions[i]

\* C4: in every state reachable by enter-folder, enter-file, exit and reset
\* calls, successful or failing, the folder stack has depth >= 1.
C4_StackNeverEmpty == folder_depth(context) >= 1

\* An exit was attempted at the root, and an exit has popped back to it.
C4_Witness ==
    /\ last.op = "exit_context"
    /\ folder_depth(context) = 1
    /\ HistoryEndsWith(<<"EXIT FOLDER">>)

\* C5: exit at depth 1 with no focused file fails, and leaves the folder
\* stack, the focused file, the variables and the history as they were.
C5_ExitAtRootFails ==
    [][ (Exit /\ folder_depth(context) = 1 /\ context.current_file = None)
            => (~last'.ok /\ last'.err = "ExecutionError" /\ context' = context) ]_vars

C5_Witness ==
    /\ last.op = "exit_context"
    /\ ~last.ok
    /\ context = before
    /\ DOMAIN context.variables # {}
    /\ context.history # << >>

\* C6: a successful enter-folder immediately followed by exit leaves the
\* folder stack as it was before the enter.
C6_EnterThenExitRestores ==
    [][ (last.op = "enter_folder" /\ last.ok /\ Exit)
            => (last'.ok /\ context'.folder_stack = before.folder_stack) ]_vars

\* The exit that followed an enter-folder issued while a file was focused.
C6_Witness ==
    /\ last.op = "exit_context"
    /\ last.ok
    /\ HistoryEndsWith(<<"ENTER FILE", "ENTER FOLDER", "EXIT FOLDER">>)

\* C7: with a file focused, exit clears only the focused file and keeps the
\* folder stack; with no file focused a successful exit removes exactly the
\* top folder.
C7_ExitFileBeforeFolder ==
    [][ Exit =>
          IF context.current_file # None
          THEN /\ last'.ok
               /\ context'.current_file = None
               /\ context'.folder_stack = context.folder_stack
          ELSE last'.ok =>
               /\ folder_depth(context') = folder_depth(context) - 1
               /\ context'.folder_stack =
                      SubSeq(context.folder_stack, 1, folder_depth(context) - 1) ]_vars

\* enter-folder, enter-file, exit, exit: the second exit popped the folder.
C7_Witness ==
    /\ last.op = "exit_context"
    /\ HistoryEndsWith(<<"ENTER FOLDER", "ENTER FILE", "EXIT FILE", "EXIT FOLDER">>)
    /\ folder_depth(context) = folder_depth(before) - 1

\* ---------------------------------------------------- Registry properties
\* C8: in every state reachable by create, switch and destroy calls a
\* container named "default" exists and the active name is a key of the
\* registry, so fetching the active container never fails.
C8_DefaultAndActiveExist ==
    /\ DEFAULT_CONTAINER \in DOMAIN containers
    /\ active \in DOMAIN containers
    /\ "panic" \notin DOMAIN active_container(manager)

\* The active container has just been destroyed.
C8_Witness ==
    /\ last.op = "destroy"
    /\ last.ok
    /\ before.active = last.arg

\* C9: destroy("default") fails in every registry state and leaves the set
\* of containers and the active name unchanged, through the registry and
\* through the interpreter's DESTROY command.
C9_DestroyDefaultFails ==
    [][ (Destroy(DEFAULT_CONTAINER) \/ ExecDestroy(DEFAULT_CONTAINER))
            => (~last'.ok /\ containers' = containers /\ active' = active) ]_vars

\* destroy("default") was refused while another container was active.
C9_Witness ==
    /\ last.op = "destroy"
    /\ last.arg = DEFAULT_CONTAINER
    /\ ~last.ok
    /\ active # DEFAULT_CONTAINER
    /\ Cardinality(DOMAIN containers) >= 3

\* C10: after a successful destroy(name) the active container is "default"
\* if name was active and is unchanged otherwise; name is gone and every
\* other container is still present, unchanged.
C10_DestroyEffect ==
    [][ \A name \in ContainerNames :
          (Destroy(name) /\ last'.ok) =>
             /\ active' = IF active = name THEN DEFAULT_CONTAINER ELSE active
             /\ name \notin DOMAIN containers'
             /\ DOMAIN containers' = (DOMAIN containers) \ {name}
             /\ \A n \in DOMAIN containers' : containers'[n] = containers[n] ]_vars

\* The active, non-default container was destroyed while a third one exists.
C10_Witness ==
    /\ last.op = "destroy"
    /\ last.ok
    /\ before.active = last.arg
    /\ active = DEFAULT_CONTAINER
    /\ Cardinality(DOMAIN containers) >= 2

\* C11: create(name) fails exactly when name already exists, switch(name)
\* fails exactly when name is absent, destroy(name) of an absent name fails;
\* a failing call leaves every container (its context, flags and creation
\* time) and the active name as they were.
C11_FailingCallsChangeNothing ==
    [][ \A name \in ContainerNames :
          /\ (\E options \in ContainerOptions : Create(name, options)) =>
                /\ ~last'.ok <=> name \in DOMAIN containers
                /\ ~last'.ok => (containers' = containers /\ active' = active)
          /\ Switch(name) =>
                /\ ~last'.ok <=> name \notin DOMAIN containers
                /\ ~last'.ok => (containers' = containers /\ active' = active)
          /\ (Destroy(name) /\ name \notin DOMAIN containers) =>
                (~last'.ok /\ containers' = containers /\ active' = active) ]_vars

\* create was refused for the name of a container made with allow_actions
\* set, while a third container exists.
C11_Witness ==
    /\ last.op = "create"
    /\ ~last.ok
    /\ last.arg \in DOMAIN containers
    /\ last.arg # DEFAULT_CONTAINER
    /\ containers[last.arg].allow_actions
    /\ containers = before.containers
    /\ Cardinality(DOMAIN containers) >= 3

\* ------------------------------------------------------------ Commands
\* parser::Command, the variants the validator and the runner tell apart.
Command_Select(query) == [kind |-> "Query", query |-> query]
Command_Query ==
    Command_Select([target |-> "Cpu", from_path |-> Nothing, where_clause |-> Nothing])
Command_Let(name, value) == [kind |-> "Let", name |-> name, value |-> value]
Command_Context(cmd) == [kind |-> "Context", cmd |-> cmd]
Command_Action(action) == [kind |-> "Action", action |-> action]
Command_For(body) == [kind |-> "For", body |-> body]
Command_If(then_body, else_body) ==
    [kind |-> "If", then_body |-> then_body, else_body |-> else_body]
Command_Life(body) == [kind |-> "Life", body |-> body]
Command_Container_Create(name, options, body) ==
    [kind |-> "Container", cmd |-> "Create", name |-> name, options |-> options,
     body |-> body]
Command_Container_Switch(name) == [kind |-> "Container", cmd |-> "Switch", name |-> name]
Command_Container_Destroy(name) == [kind |-> "Container", cmd |-> "Destroy", name |-> name]
Command_Container_List == [kind |-> "Container", cmd |-> "List"]
Command_Explain(inner) == [kind |-> "Explain", inner |-> inner]

\* ------------------------------------------------------------ validator
ValidationOptions(allow_actions, allow_life_actions, max_nesting_depth) ==
    [ allow_actions |-> allow_actions,
      allow_life_actions |-> allow_life_actions,
      max_nesting_depth |-> max_nesting_depth ]

ValidationOptionsDefault == ValidationOptions(FALSE, FALSE, 10)

ScriptValidationError(line, message, severity) ==
    [line |-> line, message |-> message, severity |-> severity]

action_name(action) ==
    IF action.kind = "DeleteFiles" THEN "DELETE FILES" ELSE "KILL PROCESS"

dangerous_paths ==
    { PathArg(TRUE, << >>), PathArg(TRUE, <<"bin">>), PathArg(TRUE, <<"etc">>),
      PathArg(TRUE, <<"usr">>), PathArg(TRUE, <<"var">>), PathArg(TRUE, <<"home">>) }

\* The Action arm of validate_command without the test of allow_actions.
validate_action_noGate(action, options, errors, line) ==
    errors
      \o (IF action.kind = "DeleteFiles" /\ action.where_clause = Nothing
          THEN << ScriptValidationError(line, <<"DELETE FILES without WHERE clause">>,
                                        "Warning") >>
          ELSE << >>)
      \o (IF action.kind = "DeleteFiles" /\ action.path \in dangerous_paths
          THEN << ScriptValidationError(line, <<"DELETE FILES targeting system path">>,
                                        "Warning") >>
          ELSE << >>)

\* The Action arm of validate_command.
validate_action(action, options, errors, line) ==
    errors
      \o (IF ~options.allow_actions
          THEN << ScriptValidationError(line, <<action_name(action), "action found">>,
                                        "Error") >>
          ELSE << >>)
      \o (IF action.kind = "DeleteFiles" /\ action.where_clause = Nothing
          THEN << ScriptValidationError(line, <<"DELETE FILES without WHERE clause">>,
                                        "Warning") >>
          ELSE << >>)
      \o (IF action.kind = "DeleteFiles" /\ action.path \in dangerous_paths
          THEN << ScriptValidationError(line, <<"DELETE FILES targeting system path">>,
                                        "Warning") >>
          ELSE << >>)

\* The second loop of the Create arm reporting Errors.
container_warnings_asErrors(create_cmd, errors, line) ==
    LET IsAction(c) == c.kind = "Action"
        actions == SelectSeq(create_cmd.body, IsAction)
    IN  IF create_cmd.options.allow_actions THEN errors
        ELSE errors \o
             [i \in 1..Len(actions) |->
                ScriptValidationError(
                    line,
                    <<action_name(actions[i].action), "action in container", create_cmd.name>>,
                    "Error")]

\* The second loop of the Create arm: one Warning for every Action that is
\* a statement of the body of a container made without ALLOW ACTIONS.
container_warnings(create_cmd, errors, line) ==
    LET IsAction(c) == c.kind = "Action"
        actions == SelectSeq(create_cmd.body, IsAction)
    IN  IF create_cmd.options.allow_actions THEN errors
        ELSE errors \o
             [i \in 1..Len(actions) |->
                ScriptValidationError(
                    line,
                    <<action_name(actions[i].action), "action in container", create_cmd.name>>,
                    "Warning")]

RECURSIVE validate_command(_, _, _, _, _)
RECURSIVE validate_body(_, _, _, _, _)
RECURSIVE validate_life_body(_, _, _, _, _)

\* `for body_cmd in body { validate_command(body_cmd, .., depth) }`
validate_body(body, options, errors, line, depth) ==
    IF body = << >> THEN errors
    ELSE validate_body(Tail(body), options,
                       validate_command(Head(body), options, errors, line, depth),
                       line, depth)

\* The optional else body of an If.
validate_else(else_body, options, errors, line, depth) ==
    IF else_body = Nothing THEN errors
    ELSE validate_body(Unwrap(else_body), options, errors, line, depth)

\* The loop of the Life arm: the rule on Actions looks at the statements of
\* the body itself, then each statement is validated.
validate_life_body(body, options, errors, line, depth) ==
    IF body = << >> THEN errors
    ELSE validate_life_body(
             Tail(body), options,
             validate_command(
                 Head(body), options,
                 IF Head(body).kind = "Action" /\ ~options.allow_life_actions
                 THEN Append(errors,
                             ScriptValidationError(
                                 line, <<"LIFE blocks cannot contain destructive actions">>,
                                 "Error"))
                 ELSE errors,
                 line, depth),
             line, depth)

\* validate_command that reports the nesting depth and goes on into the
\* command all the same.
validate_command_noHalt(cmd, options, errors, line, depth) ==
    LET reported ==
            IF depth > options.max_nesting_depth
            THEN Append(errors,
                        ScriptValidationError(line, <<"Maximum nesting depth exceeded">>,
                                              "Error"))
            ELSE errors
    IN  CASE cmd.kind = "Action" -> validate_action(cmd.action, options, reported, line)
          [] cmd.kind = "For" -> validate_body(cmd.body, options, reported, line, depth + 1)
          [] cmd.kind = "Life" ->
                validate_life_body(cmd.body, options, reported, line, depth + 1)
          [] OTHER -> reported

validate_command(cmd, options, errors, line, depth) ==
    IF depth > options.max_nesting_depth
    THEN Append(errors,
                ScriptValidationError(line, <<"Maximum nesting depth exceeded">>, "Error"))
    ELSE CASE cmd.kind = "Action" -> validate_action(cmd.action, options, errors, line)
           [] cmd.kind = "For" -> validate_body(cmd.body, options, errors, line, depth + 1)
           [] cmd.kind = "If" ->
                validate_else(cmd.else_body, options,
                              validate_body(cmd.then_body, options, errors, line, depth + 1),
                              line, depth + 1)
           [] cmd.kind = "Life" ->
                validate_life_body(cmd.body, options, errors, line, depth + 1)
           [] cmd.kind = "Container" /\ cmd.cmd = "Create" ->
                container_warnings(
                    cmd, validate_body(cmd.body, options, errors, line, depth + 1), line)
           [] OTHER -> errors

\* validate_script from statement i on, errors being those collected so far.
RECURSIVE validate_script_from(_, _, _, _)
validate_script_from(script, options, errors, i) ==
    IF i > Len(script) THEN errors
    ELSE validate_script_from(script, options,
                              validate_command(script[i], options, errors, i, 0), i + 1)

validate_script(script, options) == validate_script_from(script, options, << >>, 1)

has_errors(errors) == \E i \in 1..Len(errors) : errors[i].severity = "Error"
has_warnings(errors) == \E i \in 1..Len(errors) : errors[i].severity = "Warning"

\* ----------------------------------------------------- validator inputs
MaxNesting == 3
MaxDepths == { 1, 2, ValidationOptionsDefault.max_nesting_depth }

A_delete ==
    DeleteFiles(PathArg(TRUE, DataDir),
                Some(parse_where_clause(<< Condition(S_size, "GreaterThan", VNumber(0)) >>)))
A_delete_all == DeleteFiles(PathArg(TRUE, <<"home">>), Nothing)
A_kill == KillProcess(parse_where_clause(<< Condition(S_name, "Equal", VString(S_node)) >>))

L_x == Command_Let("x", [kind |-> "Number", v |-> 2])

LeafCommands ==
    { Command_Query, Command_Action(A_delete), Command_Action(A_delete_all),
      Command_Action(A_kill), Command_Explain(Command_Action(A_delete)) }

\* The commands that hold c as a statement of one of their bodies.
Wrapped(c) ==
    { Command_For(<< L_x, c >>),
      Command_If(<< c >>, Nothing),
      Command_If(<< Command_Query >>, Some(<< c >>)),
      Command_Life(<< c, Command_Query >>),
      Command_Container_Create("dev", [allow_actions |-> FALSE, readonly |-> FALSE], << c >>),
      Command_Container_Create("dev", [allow_actions |-> TRUE, readonly |-> FALSE], << c >>) }

\* The commands nested at most n bodies deep.
RECURSIVE Nested(_)
Nested(n) ==
    IF n = 0 THEN LeafCommands
    ELSE LeafCommands \cup UNION { Wrapped(c) : c \in Nested(n - 1) }

\* c inside n FOR bodies.
RECURSIVE InFor(_, _)
InFor(c, n) == IF n = 0 THEN c ELSE Command_For(<< InFor(c, n - 1) >>)

Scripts ==
    { << c >> : c \in Nested(MaxNesting) }
      \cup { << c, t >> : c \in Nested(MaxNesting - 1), t \in LeafCommands }
      \cup { << InFor(c, ValidationOptionsDefault.max_nesting_depth + 1) >> :
                c \in LeafCommands }
      \cup { << InFor(c, d), Command_Action(A_delete) >> :
                c \in LeafCommands,
                d \in { ValidationOptionsDefault.max_nesting_depth,
                        ValidationOptionsDefault.max_nesting_depth + 1 } }

ValidationOptionsSet ==
    { ValidationOptions(a, l, m) : a \in BOOLEAN, l \in BOOLEAN, m \in MaxDepths }

\* ---------------------------------------------------- validator actions
\* One turn of the loop of validate_script: the statement at index i.
ValidateStatement ==
    /\ validation.pc = "loop"
    /\ validation.i <= Len(validation.script)
    /\ validation' =
          [validation EXCEPT
              !.errors = validate_command(validation.script[validation.i],
                                          validation.options, @, validation.i, 0),
              !.i = @ + 1]
    /\ UNCHANGED <<context, containers, active, dir, procs, clock, pending, last, before,
                   monitor, run>>

\* validate_script returns the errors it collected.
ReturnErrors ==
    /\ validation.pc = "loop"
    /\ validation.i > Len(validation.script)
    /\ validation' = [validation EXCEPT !.pc = "returned"]
    /\ UNCHANGED <<context, containers, active, dir, procs, clock, pending, last, before,
                   monitor, run>>

InitVal ==
    /\ context = ContextDefault
    /\ containers = << >>
    /\ active = None
    /\ dir = << >>
    /\ procs = << >>
    /\ clock = 0
    /\ pending = << >>
    /\ last = NoCall
    /\ before = ContextDefault
    /\ \E script \in Scripts, options \in ValidationOptionsSet :
          validation = [pc |-> "loop", script |-> script, options |-> options,
                        errors |-> << >>, i |-> 1]
    /\ monitor = Idle
    /\ run = Idle

NextVal == ValidateStatement \/ ReturnErrors

SpecVal == InitVal /\ [][NextVal]_vars

\* -------------------------------------------------- Validator properties
\* The statements of the bodies of a command, the bodies the validator
\* descends into.
Bodies(cmd) ==
    CASE cmd.kind \in {"For", "Life"} -> cmd.body
      [] cmd.kind = "If" ->
            cmd.then_body \o (IF cmd.else_body = Nothing THEN << >> ELSE Unwrap(cmd.else_body))
      [] cmd.kind = "Container" /\ cmd.cmd = "Create" -> cmd.body
      [] OTHER -> << >>

\* cmd is, or holds in its bodies at any depth, an Action outside EXPLAIN.
RECURSIVE HasAction(_)
HasAction(cmd) ==
    \/ cmd.kind = "Action"
    \/ \E i \in DOMAIN Bodies(cmd) : HasAction(Bodies(cmd)[i])

\* The nesting depth of the deepest command inside cmd, cmd being at depth 0.
RECURSIVE Height(_)
Height(cmd) ==
    IF Bodies(cmd) = << >> THEN 0
    ELSE 1 + (CHOOSE h \in { Height(Bodies(cmd)[i]) : i \in DOMAIN Bodies(cmd) } :
                \A i \in DOMAIN Bodies(cmd) : Height(Bodies(cmd)[i]) <= h)

Validated == validation.pc = "returned"

ScriptHasAction ==
    \E i \in DOMAIN validation.script : HasAction(validation.script[i])

\* The one Action of the script is a DELETE FILES statement of the script.
OnlyActionIsTopLevelDelete ==
    \E i \in DOMAIN validation.script :
       /\ validation.script[i].kind = "Action"
       /\ validation.script[i].action.kind = "DeleteFiles"
       /\ \A j \in DOMAIN validation.script \ {i} : ~HasAction(validation.script[j])

WithinMaxDepth ==
    \A i \in DOMAIN validation.script :
        Height(validation.script[i]) <= validation.options.max_nesting_depth

\* C12 as stated: a script that contains an Action outside EXPLAIN gets at
\* least one Error with allow_actions=false; a script whose only Action is
\* a DELETE FILES at top level gets no Error with allow_actions=true.
C12_Original ==
    Validated =>
       /\ (ScriptHasAction /\ ~validation.options.allow_actions)
             => has_errors(validation.errors)
       /\ (OnlyActionIsTopLevelDelete /\ validation.options.allow_actions)
             => ~has_errors(validation.errors)

\* C12 (amended): a script that contains an Action outside EXPLAIN gets at
\* least one Error with allow_actions=false; a script whose only Action is
\* a DELETE FILES at top level, and in which no command is nested deeper
\* than max_nesting_depth, gets no Error with allow_actions=true.
C12_ActionsNeedPermission ==
    Validated =>
       /\ (ScriptHasAction /\ ~validation.options.allow_actions)
             => has_errors(validation.errors)
       /\ (OnlyActionIsTopLevelDelete /\ WithinMaxDepth /\ validation.options.allow_actions)
             => ~has_errors(validation.errors)

\* A permitted top-level DELETE FILES without WHERE, next to a statement
\* nested as deep as allowed: Warnings and no Error.
C12_Witness ==
    /\ Validated
    /\ validation.options.allow_actions
    /\ OnlyActionIsTopLevelDelete
    /\ Len(validation.script) = 2
    /\ Height(validation.script[1]) = validation.options.max_nesting_depth
    /\ has_warnings(validation.errors)
    /\ ~has_errors(validation.errors)

\* The commands of the tree of cmd with their nesting depths, cmd being
\* at depth d.
RECURSIVE CommandsAt(_, _)
CommandsAt(cmd, d) ==
    { <<cmd, d>> } \cup UNION { CommandsAt(Bodies(cmd)[i], d + 1) : i \in DOMAIN Bodies(cmd) }

\* A Life command of the tree of cmd holds an Action inside its body, as a
\* statement of the body or deeper.
HasLifeAction(cmd) ==
    \E p \in CommandsAt(cmd, 0) :
       /\ p[1].kind = "Life"
       /\ \E i \in DOMAIN p[1].body : HasAction(p[1].body[i])

IsLifeIssue(e) == e.message = <<"LIFE blocks cannot contain destructive actions">>

\* C13: an Action inside a Life body, as a statement of the body or deeper
\* inside FOR/IF/container blocks of it, gets an Error when
\* allow_life_actions is false, whatever allow_actions is; with
\* allow_life_actions true the rule reports nothing.
C13_LifeActionsAreErrors ==
    Validated =>
       /\ ((\E i \in DOMAIN validation.script : HasLifeAction(validation.script[i]))
             /\ ~validation.options.allow_life_actions)
          => has_errors(validation.errors)
       /\ validation.options.allow_life_actions
          => \A i \in DOMAIN validation.errors : ~IsLifeIssue(validation.errors[i])

IsDepthIssue(e) ==
    e = ScriptValidationError(e.line, <<"Maximum nesting depth exceeded">>, "Error")

\* How many commands of the tree of cmd are at nesting depth d.
RECURSIVE CountAtDepth(_, _)
RECURSIVE CountAtDepthIn(_, _)
CountAtDepthIn(body, d) ==
    IF body = << >> THEN 0
    ELSE CountAtDepth(Head(body), d) + CountAtDepthIn(Tail(body), d)

CountAtDepth(cmd, d) ==
    IF d = 0 THEN 1 ELSE CountAtDepthIn(Bodies(cmd), d - 1)

\* cmd with the bodies of its commands at nesting depth d emptied.
RECURSIVE CutAt(_, _)
CutBody(body, d) == [i \in DOMAIN body |-> CutAt(body[i], d)]

CutAt(cmd, d) ==
    CASE cmd.kind \in {"For", "Life"} ->
            [cmd EXCEPT !.body = IF d = 0 THEN << >> ELSE CutBody(@, d - 1)]
      [] cmd.kind = "If" ->
            [cmd EXCEPT !.then_body = IF d = 0 THEN << >> ELSE CutBody(@, d - 1),
                        !.else_body = IF @ = Nothing THEN Nothing
                                      ELSE IF d = 0 THEN Some(<< >>)
                                      ELSE Some(CutBody(Unwrap(@), d - 1))]
      [] cmd.kind = "Container" /\ cmd.cmd = "Create" ->
            [cmd EXCEPT !.body = IF d = 0 THEN << >> ELSE CutBody(@, d - 1)]
      [] OTHER -> cmd

\* C14: the validation of a command nested deeper than max_nesting_depth
\* adds exactly one issue, the nesting-depth Error, and visits nothing
\* inside it: the result is the one of the script with the bodies of those
\* commands emptied.  The result holds one nesting-depth issue for every
\* command at depth max_nesting_depth + 1 and none for any other command.
C14_DepthErrorHaltsDescent ==
    LET opts == validation.options
        limit == opts.max_nesting_depth
    IN  /\ \A i \in DOMAIN validation.script :
             \A p \in CommandsAt(validation.script[i], 0) :
                p[2] > limit =>
                   validate_command(p[1], opts, validation.errors, i, p[2])
                      = Append(validation.errors,
                               ScriptValidationError(
                                   i, <<"Maximum nesting depth exceeded">>, "Error"))
        /\ Validated =>
             /\ validation.errors =
                   validate_script(
                       [i \in DOMAIN validation.script |->
                            CutAt(validation.script[i], limit + 1)],
                       opts)
             /\ \A i \in DOMAIN validation.script :
                   Cardinality({ k \in DOMAIN validation.errors :
                                   /\ validation.errors[k].line = i
                                   /\ IsDepthIssue(validation.errors[k]) })
                      = CountAtDepth(validation.script[i], limit + 1)

\* A script with an Action below the deepest allowed level, validated with
\* actions forbidden: the nesting-depth Error is the only issue.
C14_Witness ==
    /\ Validated
    /\ ~validation.options.allow_actions
    /\ ~validation.options.allow_life_actions
    /\ Len(validation.script) = 1
    /\ HasLifeAction(validation.script[1])
    /\ Len(validation.errors) = 1
    /\ IsDepthIssue(validation.errors[1])

\* ------------------------------------------------------- query providers
\* parser::QueryCommand; the field list does not reach the result's shape.
QueryCommand(target, from_path, where_clause) ==
    [target |-> target, from_path |-> from_path, where_clause |-> where_clause]

QueryTargets ==
    { "Cpu", "Memory", "Disk", "Network", "System", "Battery", "Process", "Files", "Content" }

\* The characters of file names in the order of their codes, for `str::cmp`.
AsciiOrder ==
    << "%", ".", "0", "1", "2", "3", "4", "5", "6", "7", "8", "9",
       "A", "B", "C", "D", "E", "F", "G", "H", "I", "J", "K", "L", "M",
       "N", "O", "P", "Q", "R", "S", "T", "U", "V", "W", "X", "Y", "Z",
       "a", "b", "c", "d", "e", "f", "g", "h", "i", "j", "k", "l", "m",
       "n", "o", "p", "q", "r", "s", "t", "u", "v", "w", "x", "y", "z" >>

char_code(c) == CHOOSE i \in DOMAIN AsciiOrder : AsciiOrder[i] = c

\* a.cmp(b) == Ordering::Less
RECURSIVE str_less(_, _)
str_less(a, b) ==
    IF b = << >> THEN FALSE
    ELSE IF a = << >> THEN TRUE
    ELSE IF Head(a) # Head(b) THEN char_code(Head(a)) < char_code(Head(b))
    ELSE str_less(Tail(a), Tail(b))

\* The comparators of the two sort_by calls: files by name ascending,
\* processes by cpu descending.
sorts_before(a, b, by) ==
    IF by = "name" THEN str_less(a.name, b.name) ELSE a.cpu > b.cpu

\* slice::sort_by, which is stable.
RECURSIVE insert_sorted(_, _, _)
insert_sorted(e, sorted, by) ==
    IF sorted = << >> THEN << e >>
    ELSE IF sorts_before(e, sorted[Len(sorted)], by)
    THEN Append(insert_sorted(e, SubSeq(sorted, 1, Len(sorted) - 1), by), sorted[Len(sorted)])
    ELSE Append(sorted, e)

RECURSIVE sort_by(_, _)
sort_by(items, by) ==
    IF items = << >> THEN << >>
    ELSE insert_sorted(items[Len(items)], sort_by(SubSeq(items, 1, Len(items) - 1), by), by)

\* `file_path.extension()`: None for a name without an extension.
file_extension(name) ==
    IF DotPositions(name) \ {1} = {} THEN Nothing ELSE Some(extension(name))

\* executor::FileEntry of a directory entry.
FileEntry(path, entry) ==
    [ name |-> entry.name,
      path |-> PathArg(TRUE, Append(path, entry.name)),
      size |-> entry.size,
      is_dir |-> ~entry.is_file,
      extension |-> file_extension(entry.name) ]

\* TODO in the source: every entry is accepted.
matches_file_filter(entry, where_clause) == TRUE

\* What a query returns: Ok with the data, or the error.
QueryOk(kind, items) == [ok |-> TRUE, err |-> None, data |-> [kind |-> kind, items |-> items]]
QueryErr(err) == [ok |-> FALSE, err |-> err, data |-> None]

query_files(path, where_clause, entries) ==
    IF ~exists(path) THEN QueryErr("PathNotFound")
    ELSE IF ~is_dir(path) THEN QueryErr("ExecutionError")
    ELSE LET listed == [i \in DOMAIN entries |-> FileEntry(path, entries[i])]
             Accepted(e) == where_clause = Nothing
                               \/ matches_file_filter(e, Unwrap(where_clause))
         IN  QueryOk("Files", sort_by(SelectSeq(listed, Accepted), "name"))

\* regex::Regex::is_match for "^p$" without flags, p as for RegexMatch.
RECURSIVE regex_is_match(_, _)
regex_is_match(s, p) ==
    IF p = <<>> THEN s = <<>>
    ELSE IF Len(p) >= 2 /\ p[2] = "*"
    THEN \/ regex_is_match(s, SubSeq(p, 3, Len(p)))
         \/ (s # <<>> /\ p[1] \in {".", Head(s)} /\ regex_is_match(Tail(s), p))
    ELSE s # <<>> /\ p[1] \in {".", Head(s)} /\ regex_is_match(Tail(s), Tail(p))

\* queries::process::compare_strings, which compares case-sensitively.
query_compare_strings(left, right, op) ==
    CASE op = "Equal" -> left = right
      [] op = "NotEqual" -> left # right
      [] op = "Like" -> regex_is_match(left, replace_percent(right))
      [] op = "Contains" -> str_contains(left, right)
      [] OTHER -> FALSE

\* queries::process::matches_condition
query_matches_condition(process, condition) ==
    LET field == to_lowercase(condition.field)
        value == condition.value
    IN  IF field = S_pid
        THEN value.kind = "Number" /\ compare_numbers(2 * process.pid, value.v, condition.operator)
        ELSE IF field = S_name
        THEN value.kind = "String"
                /\ query_compare_strings(process.name, value.v, condition.operator)
        ELSE IF field = S_cpu
        THEN value.kind = "Number" /\ compare_numbers(process.cpu, value.v, condition.operator)
        ELSE IF field = S_memory
        THEN IF value.kind = "Number"
             THEN compare_numbers(2 * process.memory, 2 * f64_as_u64(value.v),
                                  condition.operator)
             ELSE value.kind = "Size"
                     /\ compare_numbers(2 * process.memory, 2 * value.v, condition.operator)
        ELSE TRUE

\* queries::process::matches_where_clause
query_matches_where_clause(process, where_clause) ==
    \A i \in 1..Len(where_clause.conditions) :
        query_matches_condition(process, where_clause.conditions[i].condition)

query_processes(where_clause, table) ==
    LET Accepted(p) == where_clause = Nothing
                          \/ query_matches_where_clause(p, Unwrap(where_clause))
    IN  QueryOk("Processes", sort_by(SelectSeq(table, Accepted), "cpu"))

\* The path a FILES query lists: FROM, resolved, or the current folder.
files_query_path(query, ctxt) ==
    IF query.from_path = Nothing THEN current_folder(ctxt)
    ELSE resolve_path(ctxt, resolve_variable_in_string(Unwrap(query.from_path), ctxt))

\* The file a CONTENT query reads: FROM, resolved, or the focused file
\* (None when there is neither).
content_query_path(query, ctxt) ==
    IF query.from_path # Nothing
    THEN resolve_path(ctxt, resolve_variable_in_string(Unwrap(query.from_path), ctxt))
    ELSE ctxt.current_file

query_content(path) ==
    IF ~exists(path) THEN QueryErr("PathNotFound")
    ELSE IF ~is_file(path) THEN QueryErr("ExecutionError")
    ELSE QueryOk("Content", << >>)

execute_query(query, ctx, ctxt, state) ==
    CASE query.target = "Process" -> query_processes(query.where_clause, state.procs)
      [] query.target = "Files" ->
            query_files(files_query_path(query, ctxt), query.where_clause, state.dir)
      [] query.target = "Content" ->
            IF content_query_path(query, ctxt) = None THEN QueryErr("ExecutionError")
            ELSE query_content(content_query_path(query, ctxt))
      [] OTHER -> QueryOk(query.target, << >>)

\* -------------------------------------------- interpreter: statements
\* parser::ContextCommand, the variants that change the Environment.
ContextCommand_EnterFolder(path) == [kind |-> "EnterFolder", path |-> path]
ContextCommand_EnterFile(path) == [kind |-> "EnterFile", path |-> path]
ContextCommand_Exit == [kind |-> "Exit"]
ContextCommand_Reset == [kind |-> "Reset"]

execute_context_command(cmd, ctxt, now) ==
    CASE cmd.kind = "EnterFolder" ->
            enter_folder(ctxt, resolve_variable_in_string(cmd.path, ctxt), now)
      [] cmd.kind = "EnterFile" ->
            enter_file(ctxt, resolve_variable_in_string(cmd.path, ctxt), now)
      [] cmd.kind = "Exit" -> exit_context(ctxt, now)
      [] OTHER -> reset(ctxt, now)

execute_let(let_stmt, ctxt) == Ok(set_variable(ctxt, let_stmt.name, let_stmt.value))

\* What executing a statement returns and leaves behind: Ok with the
\* data of the result or the error, the Environment, and the files and
\* processes of the machine.  `invoked` says a provider was called.
OnContext(r, state) ==
    [ok |-> r.ok, err |-> r.err, context |-> r.self, state |-> state,
     data |-> IF r.ok THEN [kind |-> "Message"] ELSE None, invoked |-> FALSE]
OnMachine(r, ctxt) ==
    [ok |-> r.ok, err |-> r.err, context |-> ctxt, state |-> r.self,
     data |-> r.result, invoked |-> r.invoked]
OnQuery(r, ctxt, state) ==
    [ok |-> r.ok, err |-> r.err, context |-> ctxt, state |-> state,
     data |-> r.data, invoked |-> TRUE]
Returns(data, ctxt, state) ==
    [ok |-> TRUE, err |-> None, context |-> ctxt, state |-> state,
     data |-> data, invoked |-> FALSE]

\* The text execute_explain formats, as the parts it is made of.
Explanation(of, parts) == [kind |-> "Explanation", of |-> of, parts |-> parts]

\* execute_explain that runs the command it was asked to explain.
execute_explain_runs(cmd, ctx, ctxt, state, now) ==
    IF cmd.kind = "Action"
    THEN OnMachine(execute_action(cmd.action, ctx, ctxt, state), ctxt)
    ELSE IF cmd.kind = "Let" THEN OnContext(execute_let(cmd, ctxt), state)
    ELSE IF cmd.kind = "Context"
    THEN OnContext(execute_context_command(cmd.cmd, ctxt, now), state)
    ELSE Returns(Explanation(cmd.kind, << >>), ctxt, state)

execute_explain(cmd, ctx, ctxt, state, now) ==
    CASE cmd.kind = "Query" ->
            Returns(Explanation("Query", << cmd.query.target, cmd.query.from_path,
                                            cmd.query.where_clause # Nothing >>),
                    ctxt, state)
      [] cmd.kind = "Action" ->
            Returns(IF cmd.action.kind = "DeleteFiles"
                    THEN Explanation("DeleteFiles", << cmd.action.path,
                                                       cmd.action.where_clause # Nothing >>)
                    ELSE Explanation("KillProcess", << >>),
                    ctxt, state)
      [] cmd.kind = "Context" -> Returns(Explanation("Context", << cmd.cmd >>), ctxt, state)
      [] cmd.kind = "Let" ->
            Returns(Explanation("Let", << cmd.name, cmd.value >>), ctxt, state)
      [] cmd.kind \in {"For", "Life"} ->
            Returns(Explanation(cmd.kind, << Len(cmd.body) >>), ctxt, state)
      [] cmd.kind = "If" ->
            Returns(Explanation("If", << Len(cmd.then_body),
                                         IF cmd.else_body = Nothing THEN Nothing
                                         ELSE Some(Len(Unwrap(cmd.else_body))) >>),
                    ctxt, state)
      [] cmd.kind = "Container" ->
            Returns(IF cmd.cmd = "Create"
                    THEN Explanation("Create", << cmd.name, Len(cmd.body),
                                                  cmd.options.allow_actions,
                                                  cmd.options.readonly >>)
                    ELSE IF cmd.cmd = "List" THEN Explanation("List", << >>)
                    ELSE Explanation(cmd.cmd, << cmd.name >>),
                    ctxt, state)
      [] OTHER -> Returns(Explanation("Nested EXPLAIN not supported", << >>), ctxt, state)

\* ResultData::ContainerResult
ContainerResult(operation, container_name, listed) ==
    [kind |-> "ContainerResult", operation |-> operation,
     container_name |-> container_name, containers |-> listed]

\* What the interpreter's LIST reports.
listed_containers(ctx) ==
    Some(<< [name |-> "default", allow_actions |-> ctx.allow_actions,
             readonly |-> FALSE, is_active |-> TRUE] >>)

RECURSIVE execute_command_with_context(_, _, _, _, _)

\* `for cmd in body { execute_command_with_context(cmd, ..)?; }`
RECURSIVE execute_body(_, _, _, _, _)
execute_rest(r, rest, ctx, now) ==
    IF ~r.ok THEN r ELSE execute_body(rest, ctx, r.context, r.state, now)

execute_body(body, ctx, ctxt, state, now) ==
    IF body = << >> THEN OnContext(Ok(ctxt), state)
    ELSE execute_rest(execute_command_with_context(Head(body), ctx, ctxt, state, now),
                      Tail(body), ctx, now)

\* The end of the Create arm, r being the outcome of the body.
container_created(r, name) ==
    IF ~r.ok THEN r
    ELSE Returns(ContainerResult("CREATE", Some(name), Nothing), r.context, r.state)

\* The interpreter holds no registry: Create runs the body in the current
\* Environment, Destroy refuses "default", and the rest reports success.
execute_container_cmd(cmd, ctx, ctxt, state, now) ==
    CASE cmd.cmd = "Create" ->
            container_created(execute_body(cmd.body, ctx, ctxt, state, now), cmd.name)
      [] cmd.cmd = "Switch" ->
            Returns(ContainerResult("SWITCH", Some(cmd.name), Nothing), ctxt, state)
      [] cmd.cmd = "List" ->
            Returns(ContainerResult("LIST", Nothing, listed_containers(ctx)), ctxt, state)
      [] cmd.cmd = "Destroy" ->
            OnContext(execute_container_cmd_Destroy(cmd.name, ctxt), state)
      [] OTHER -> Returns(ContainerResult("EXPORT", Some(cmd.name), Nothing), ctxt, state)

\* The arms for Query, Action, Context, Let, Container and Explain; the
\* statements of this model hold no For, If, Life or PRINT at this level.
execute_command_with_context(cmd, ctx, ctxt, state, now) ==
    CASE cmd.kind = "Query" -> OnQuery(execute_query(cmd.query, ctx, ctxt, state), ctxt, state)
      [] cmd.kind = "Action" -> OnMachine(execute_action(cmd.action, ctx, ctxt, state), ctxt)
      [] cmd.kind = "Context" -> OnContext(execute_context_command(cmd.cmd, ctxt, now), state)
      [] cmd.kind = "Let" -> OnContext(execute_let(cmd, ctxt), state)
      [] cmd.kind = "Container" -> execute_container_cmd(cmd, ctx, ctxt, state, now)
      [] cmd.kind = "Explain" -> execute_explain(cmd.inner, ctx, ctxt, state, now)
      [] OTHER -> Returns([kind |-> "Message"], ctxt, state)

\* --------------------------------------------------------- Live Monitor
\* life::MonitorState.  percentage and usage are f32 values given in
\* halves of a point, which f32 holds and subtracts exactly.
MonitorState_Battery(percentage, charging) ==
    [kind |-> "Battery", percentage |-> percentage, charging |-> charging]
MonitorState_Memory(used, total) == [kind |-> "Memory", used |-> used, total |-> total]
MonitorState_Cpu(usage) == [kind |-> "Cpu", usage |-> usage]
MonitorState_Disk(used, total) == [kind |-> "Disk", used |-> used, total |-> total]
MonitorState_Network(bytes_sent, bytes_recv) ==
    [kind |-> "Network", bytes_sent |-> bytes_sent, bytes_recv |-> bytes_recv]
MonitorState_Processes(count) == [kind |-> "Processes", count |-> count]

abs(x) == IF x < 0 THEN -x ELSE x

\* `diff` of two u64 values as has_changed computes it.
u64_diff(u1, u2) == IF u1 > u2 THEN u1 - u2 ELSE u2 - u1

has_changed_strict(self, other) ==
    CASE self.kind = "Battery" /\ other.kind = "Battery" ->
            self.charging # other.charging \/ abs(self.percentage - other.percentage) > 2
      [] self.kind = "Cpu" /\ other.kind = "Cpu" ->
            abs(self.usage - other.usage) > 2
      [] self.kind \in {"Memory", "Disk"} /\ other.kind = self.kind ->
            u64_diff(self.used, other.used) > (self.used \div 100)
      [] self.kind = "Network" /\ other.kind = "Network" ->
            self.bytes_sent # other.bytes_sent \/ self.bytes_recv # other.bytes_recv
      [] self.kind = "Processes" /\ other.kind = "Processes" ->
            self.count # other.count
      [] OTHER -> TRUE

has_changed(self, other) ==
    CASE self.kind = "Battery" /\ other.kind = "Battery" ->
            self.charging # other.charging \/ abs(self.percentage - other.percentage) >= 2
      [] self.kind = "Memory" /\ other.kind = "Memory" ->
            u64_diff(self.used, other.used) > (self.used \div 100)
      [] self.kind = "Cpu" /\ other.kind = "Cpu" ->
            abs(self.usage - other.usage) >= 2
      [] self.kind = "Disk" /\ other.kind = "Disk" ->
            u64_diff(self.used, other.used) > (self.used \div 100)
      [] self.kind = "Network" /\ other.kind = "Network" ->
            self.bytes_sent # other.bytes_sent \/ self.bytes_recv # other.bytes_recv
      [] self.kind = "Processes" /\ other.kind = "Processes" ->
            self.count # other.count
      [] OTHER -> TRUE

S_Charging == <<"C", "h", "a", "r", "g", "i", "n", "g">>
S_Discharging == <<"D", "i", "s", "c", "h", "a", "r", "g", "i", "n", "g">>
S_Full == <<"F", "u", "l", "l">>
S_charging == <<"c", "h", "a", "r", "g", "i", "n", "g">>

\* `.iter().fold(0, |s, iface| s + iface.field)`
RECURSIVE SumOver(_, _)
SumOver(items, field) ==
    IF items = << >> THEN 0 ELSE Head(items)[field] + SumOver(Tail(items), field)

\* What the probes return: `info` is the answer of the query for `target`
\* (the batteries, the disks, the interfaces: sequences).
get_current_state(target, info) ==
    CASE target = "Battery" ->
            IF info.batteries # << >>
            THEN MonitorState_Battery(
                     info.batteries[1].percentage,
                     str_contains(to_lowercase(info.batteries[1].state), S_charging))
            ELSE MonitorState_Battery(200, FALSE)
      [] target = "Memory" -> MonitorState_Memory(info.used, info.total)
      [] target = "Cpu" -> MonitorState_Cpu(info.usage)
      [] target = "Disk" ->
            IF info.disks # << >>
            THEN MonitorState_Disk(info.disks[1].used, info.disks[1].total)
            ELSE MonitorState_Disk(0, 0)
      [] target = "Network" ->
            MonitorState_Network(SumOver(info.interfaces, "transmitted"),
                                 SumOver(info.interfaces, "received"))
      [] OTHER -> MonitorState_Processes(info.count)

\* `match &last_state { None => true, Some(prev) => current.has_changed(prev) }`
should_execute_always(current_state, last_state) == TRUE

should_execute(current_state, last_state) ==
    IF last_state = Nothing THEN TRUE ELSE has_changed(current_state, Unwrap(last_state))

\* ------------------------------------------------- Live Monitor inputs
MaxTicks == 3

LifeTargets == { "Battery", "Memory", "Cpu", "Disk", "Network", "Processes" }

BatteryReading(state, percentage) ==
    [batteries |-> << [state |-> state, percentage |-> percentage] >>]

\* The answers the probes can give for a target.  Battery percentages 80.0,
\* 80.5, 81.0 and 82.0; CPU usages 50.0, 50.5 and 51.0.
Readings(target) ==
    CASE target = "Battery" ->
            { BatteryReading(S_Discharging, 160), BatteryReading(S_Discharging, 161),
              BatteryReading(S_Discharging, 162), BatteryReading(S_Discharging, 164),
              BatteryReading(S_Full, 160), [batteries |-> << >>] }
      [] target = "Memory" ->
            { [used |-> u, total |-> 1000] : u \in {198, 200, 202, 203} }
      [] target = "Cpu" -> { [usage |-> u] : u \in {100, 101, 102} }
      [] target = "Disk" ->
            { [disks |-> << [used |-> u, total |-> 1000] >>] : u \in {198, 200, 203} }
               \cup { [disks |-> << >>] }
      [] target = "Network" ->
            { [interfaces |-> << [transmitted |-> 1, received |-> 2],
                                 [transmitted |-> t, received |-> 0] >>] : t \in {0, 1} }
      [] OTHER -> { [count |-> c] : c \in {7, 8} }

\* Reactive bodies: one that always succeeds, one that succeeds the first
\* time only (the folder it enters has no folder of that name), one that
\* fails after its first statement (EXIT at the root).
LifeBodies ==
    { << Command_Let("x", [kind |-> "Number", v |-> 2]) >>,
      << Command_Context(ContextCommand_EnterFolder(PathArg(FALSE, <<"proj">>))) >>,
      << Command_Let("x", [kind |-> "Boolean", v |-> TRUE]),
         Command_Context(ContextCommand_Exit) >> }

\* ------------------------------------------------ Live Monitor actions
\* run_life_block up to its loop: the flag starts set and the Ctrl+C
\* handler is registered, which the platform may refuse.
StartLife ==
    /\ monitor.pc = "start"
    /\ monitor' =
          IF monitor.installable
          THEN [monitor EXCEPT !.pc = "check", !.handler = TRUE]
          ELSE [monitor EXCEPT !.pc = "returned", !.result = "ExecutionError"]
    /\ UNCHANGED <<context, containers, active, dir, procs, clock, pending, last, before,
                   validation, run>>

LoopCheck_ignoresFlag ==
    /\ monitor.pc = "check"
    /\ Len(monitor.ticks) < MaxTicks
    /\ monitor' = [monitor EXCEPT !.pc = "sample"]
    /\ UNCHANGED <<context, containers, active, dir, procs, clock, pending, last, before,
                   validation, run>>

\* `while running.load(..)`: the loop boundary.
LoopCheck ==
    /\ monitor.pc = "check"
    /\ monitor.running => Len(monitor.ticks) < MaxTicks
    /\ monitor' =
          IF monitor.running
          THEN [monitor EXCEPT !.pc = "sample"]
          ELSE [monitor EXCEPT !.pc = "returned", !.result = "Ok"]
    /\ UNCHANGED <<context, containers, active, dir, procs, clock, pending, last, before,
                   validation, run>>

\* The sample the loop takes and the decision it makes on it.
Sampled(current_state) ==
    [monitor EXCEPT
        !.pc = IF should_execute(current_state, monitor.last_state) THEN "body" ELSE "sleep",
        !.current_state = Some(current_state),
        !.ticks = Append(@, [sample |-> current_state, against |-> monitor.last_state,
                             executions |-> 0]),
        !.samples_after_flip = IF monitor.running THEN @ ELSE @ + 1]

\* `monitor.get_current_state()?` and `should_execute`.
Sample ==
    /\ monitor.pc = "sample"
    /\ \/ monitor' = [monitor EXCEPT
                          !.pc = "returned", !.result = "ExecutionError",
                          !.samples_after_flip = IF monitor.running THEN @ ELSE @ + 1]
       \/ \E info \in Readings(monitor.target) :
             monitor' = Sampled(get_current_state(monitor.target, info))
    /\ UNCHANGED <<context, containers, active, dir, procs, clock, pending, last, before,
                   validation, run>>

\* What the loop does with the outcome r of the body.
BodyDone(r) ==
    /\ context' = r.context
    /\ dir' = r.state.dir
    /\ procs' = r.state.procs
    /\ monitor' =
          [monitor EXCEPT
              !.pc = IF r.ok THEN "sleep" ELSE "returned",
              !.result = IF r.ok THEN @ ELSE r.err,
              !.last_state = IF r.ok THEN monitor.current_state ELSE @,
              !.ticks[Len(monitor.ticks)].executions = @ + 1,
              !.bodies_after_flip = IF monitor.running THEN @ ELSE @ + 1]

\* The reactive body, then `last_state = Some(current_state)`.
ExecuteBody ==
    /\ monitor.pc = "body"
    /\ BodyDone(execute_body(monitor.body, monitor.exec_ctx, context, system, clock))
    /\ UNCHANGED <<containers, active, clock, pending, last, before, validation, run>>

\* std::thread::sleep(interval)
Sleep ==
    /\ monitor.pc = "sleep"
    /\ monitor' = [monitor EXCEPT !.pc = "check"]
    /\ UNCHANGED <<context, containers, active, dir, procs, clock, pending, last, before,
                   validation, run>>

\* The Ctrl+C handler: `r.store(false, ..)`.
Signal ==
    /\ monitor.pc # "returned"
    /\ monitor.handler
    /\ monitor.running
    /\ monitor' = [monitor EXCEPT !.running = FALSE]
    /\ UNCHANGED <<context, containers, active, dir, procs, clock, pending, last, before,
                   validation, run>>

InitLife ==
    /\ context = ContextDefault
    /\ containers = << >>
    /\ active = None
    /\ dir = << >>
    /\ procs = << >>
    /\ clock = 0
    /\ pending = << >>
    /\ last = NoCall
    /\ before = ContextDefault
    /\ validation = Idle
    /\ \E target \in LifeTargets, body \in LifeBodies, installable \in BOOLEAN :
          monitor = [pc |-> "start", target |-> target, body |-> body,
                     exec_ctx |-> ExecutionContextDefault, installable |-> installable,
                     handler |-> FALSE, running |-> TRUE,
                     last_state |-> Nothing, current_state |-> Nothing, result |-> None,
                     ticks |-> << >>, samples_after_flip |-> 0, bodies_after_flip |-> 0]
    /\ run = Idle

NextLife == StartLife \/ LoopCheck \/ Sample \/ ExecuteBody \/ Sleep \/ Signal

SpecLife == InitLife /\ [][NextLife]_vars

\* The thread of the loop is scheduled and its sleep ends.
SpecLifeFair ==
    /\ SpecLife
    /\ WF_vars(LoopCheck) /\ WF_vars(Sample) /\ WF_vars(ExecuteBody) /\ WF_vars(Sleep)

\* ---------------------------------------------- Live Monitor properties
\* The poll ticks of the run so far, and those whose decision has been
\* carried out.
Ticks == DOMAIN monitor.ticks

Settled(k) == k < Len(monitor.ticks) \/ monitor.pc # "body"

\* The sample of tick k was compared with `prev` and the two samples are of
\* the given kind.
Compared(k, kind) ==
    /\ monitor.ticks[k].against # Nothing
    /\ monitor.ticks[k].sample.kind = kind
    /\ Unwrap(monitor.ticks[k].against).kind = kind

\* C15: each new sample is compared with the sample of the previous poll
\* tick, whether or not that one triggered the reactive body.  The loop
\* compares it with the last sample that triggered the body instead.
C15_ComparedWithPreviousTick ==
    \A k \in Ticks :
        k > 1 => monitor.ticks[k].against = Some(monitor.ticks[k - 1].sample)

\* C16: between two battery samples the change predicate holds iff the
\* charging flags differ or the percentages are at least 1 point (2 halves)
\* apart, and between two CPU samples iff the usages are at least 1 point
\* apart.
C16_BatteryAndCpuPredicate ==
    \A k \in Ticks :
        LET new == monitor.ticks[k].sample
            old == monitor.ticks[k].against
        IN  /\ Compared(k, "Battery") =>
                (has_changed(new, Unwrap(old)) <=>
                    \/ new.charging # Unwrap(old).charging
                    \/ new.percentage - Unwrap(old).percentage >= 2
                    \/ Unwrap(old).percentage - new.percentage >= 2)
            /\ Compared(k, "Cpu") =>
                (has_changed(new, Unwrap(old)) <=>
                    \/ new.usage - Unwrap(old).usage >= 2
                    \/ Unwrap(old).usage - new.usage >= 2)

\* 80.0 -> 80.5 with the same flag did not run the body, 80.0 -> 82.0 did.
C16_Witness ==
    /\ monitor.pc = "returned"
    /\ Len(monitor.ticks) = 3
    /\ monitor.ticks[1].sample = MonitorState_Battery(160, TRUE)
    /\ monitor.ticks[2].sample = MonitorState_Battery(161, TRUE)
    /\ monitor.ticks[2].executions = 0
    /\ monitor.ticks[3].sample = MonitorState_Battery(164, TRUE)
    /\ monitor.ticks[3].against = Some(MonitorState_Battery(160, TRUE))
    /\ monitor.ticks[3].executions = 1

\* C17: a memory or disk sample counts as changed iff its used bytes differ
\* from the previous used bytes by more than 1% of the previous value.  The
\* loop takes 1% of the new value.
C17_OnePercentOfPrevious ==
    \A k \in Ticks :
        Compared(k, "Memory") \/ Compared(k, "Disk") =>
            LET new == monitor.ticks[k].sample.used
                old == Unwrap(monitor.ticks[k].against).used
            IN  has_changed(monitor.ticks[k].sample, Unwrap(monitor.ticks[k].against))
                    <=> (new - old) * 100 > old \/ (old - new) * 100 > old

Flipped == monitor.handler /\ ~monitor.running

\* After the flip at most one sample is taken and at most one body begun.
OneIterationAfterFlip ==
    monitor.samples_after_flip <= 1 /\ monitor.bodies_after_flip <= 1

\* The handler changes the flag and nothing else.
SignalOnlyFlipsFlag ==
    [][ monitor.running /\ ~monitor'.running =>
            /\ monitor' = [monitor EXCEPT !.running = FALSE]
            /\ UNCHANGED <<context, containers, active, dir, procs, clock>> ]_vars

\* C19 as stated: after the flip the loop terminates within the iteration
\* in progress and returns success; the handler only changes the flag.
C19_Original ==
    /\ Flipped ~> monitor.pc = "returned"
    /\ [](Flipped => OneIterationAfterFlip)
    /\ [](Flipped /\ monitor.pc = "returned" => monitor.result = "Ok")
    /\ SignalOnlyFlipsFlag

\* C19: after the flip the loop terminates within the iteration in
\* progress; it returns success unless the sample or the body of that
\* iteration fails, and then it returns that failure; the handler only
\* changes the flag.
C19_StopsAfterFlip ==
    /\ Flipped ~> monitor.pc = "returned"
    /\ [](Flipped => OneIterationAfterFlip)
    /\ [](Flipped /\ monitor.pc = "returned" =>
            \/ monitor.result = "Ok"
            \/ /\ monitor.result \notin {"Ok", None}
               /\ monitor.samples_after_flip + monitor.bodies_after_flip >= 1)
    /\ SignalOnlyFlipsFlag

\* The flag was flipped while a sample was due: the loop took that sample,
\* ran the body once, slept and returned success.
C19_Witness ==
    /\ Flipped
    /\ monitor.pc = "returned"
    /\ monitor.result = "Ok"
    /\ monitor.samples_after_flip = 1
    /\ monitor.bodies_after_flip = 1

\* ---------------------------------------------------------- script runner
\* runner::ScriptResult.  A collected result is kept as the kind of the
\* statement that produced it, the error as the kind of the ArtaError.
ScriptResult(results, statements_executed, success, error) ==
    [results |-> results, statements_executed |-> statements_executed,
     success |-> success, error |-> error]

MaxScript == 3

\* The statements scripts are made of.  ENTER FOLDER fails where the folder
\* is missing, EXIT fails at the root, an action fails when actions are not
\* allowed.
RunStatements ==
    { Command_Query,
      L_x,
      Command_Context(ContextCommand_EnterFolder(PathArg(FALSE, <<"proj">>))),
      Command_Context(ContextCommand_Exit),
      Command_Action(A_delete),
      Command_Action(A_kill) }

RunScripts == UNION { [1..n -> RunStatements] : n \in 0..MaxScript }

\* run_script with the loop going on after a failing statement.
StatementDone_continues(r) ==
    /\ context' = r.context
    /\ dir' = r.state.dir
    /\ procs' = r.state.procs
    /\ run' = [run EXCEPT
                  !.i = @ + 1,
                  !.attempts = Append(@, run.i),
                  !.statements_executed = IF r.ok THEN @ + 1 ELSE @,
                  !.results = IF r.ok THEN Append(@, run.script[run.i].kind) ELSE @]

\* The two arms of the match on the outcome r of a statement.
StatementDone(r) ==
    /\ context' = r.context
    /\ dir' = r.state.dir
    /\ procs' = r.state.procs
    /\ run' =
          IF r.ok
          THEN [run EXCEPT
                   !.i = @ + 1,
                   !.attempts = Append(@, run.i),
                   !.statements_executed = @ + 1,
                   !.results = Append(@, run.script[run.i].kind)]
          ELSE [run EXCEPT
                   !.pc = "returned",
                   !.attempts = Append(@, run.i),
                   !.returned = Some(ScriptResult(run.results, run.statements_executed,
                                                  FALSE, Some(r.err)))]

\* One turn of `for cmd in &script.statements`.
RunStatement ==
    /\ run.pc = "loop"
    /\ run.i <= Len(run.script)
    /\ StatementDone(execute_command_with_context(run.script[run.i], run.exec_ctx,
                                                  context, system, clock))
    /\ UNCHANGED <<containers, active, clock, pending, last, before, validation, monitor>>

\* The end of the statements: the final Ok(ScriptResult { .. }).
RunReturn ==
    /\ run.pc = "loop"
    /\ run.i > Len(run.script)
    /\ run' = [run EXCEPT
                  !.pc = "returned",
                  !.returned = Some(ScriptResult(run.results, run.statements_executed,
                                                 TRUE, Nothing))]
    /\ UNCHANGED <<context, containers, active, dir, procs, clock, pending, last, before,
                   validation, monitor>>

RunMachines ==
    { Machine(<< >>, << >>),
      Machine(<<E_b, E_sub, E_c, E_a>>, <<P_node, P_xinit, P_systemd>>) }

InitRun ==
    /\ context = ContextDefault
    /\ containers = << >>
    /\ active = None
    /\ \E m \in RunMachines : dir = m.dir /\ procs = m.procs
    /\ clock = 0
    /\ pending = << >>
    /\ last = NoCall
    /\ before = [dir |-> dir, procs |-> procs]
    /\ validation = Idle
    /\ monitor = Idle
    /\ \E script \in RunScripts, exec_ctx \in ExecutionContexts :
          run = [pc |-> "loop", script |-> script, exec_ctx |-> exec_ctx, i |-> 1,
                 results |-> << >>, statements_executed |-> 0, attempts |-> << >>,
                 returned |-> Nothing]

NextRun == RunStatement \/ RunReturn

SpecRun == InitRun /\ [][NextRun]_vars

\* ------------------------------------------------------ runner properties
\* The outcome of the first j statements of the script, executed in order
\* from the state the run started in.
Prefix(j) ==
    execute_body(SubSeq(run.script, 1, j), run.exec_ctx, ContextDefault, before, 0)

\* The statements of the script that are reached and return an Error.
Failing == { j \in 1..Len(run.script) : ~Prefix(j).ok }

Least(S) == CHOOSE j \in S : \A other \in S : j <= other

\* What the run reports and leaves when no statement fails.
ReportsSuccess(res) ==
    /\ res.success
    /\ res.error = Nothing
    /\ res.statements_executed = Len(run.script)
    /\ Len(res.results) = Len(run.script)
    /\ run.attempts = [j \in 1..Len(run.script) |-> j]

\* What the run reports and leaves when statement k (from 1) is the first to
\* fail with `failure`; `kept` is the outcome of the statements before k.
ReportsFailure(res, k, failure, kept) ==
    /\ ~res.success
    /\ res.error = Some(failure.err)
    /\ res.statements_executed = k - 1
    /\ Len(res.results) = k - 1
    /\ run.attempts = [j \in 1..k |-> j]
    /\ context = kept.context
    /\ system = kept.state

\* C20: a failing statement k ends the run: nothing after k is executed,
\* the result counts the k statements before it (as many as the results
\* collected), success is false and the error is reported, and what the
\* statements before k did is still there; with no failing statement the
\* result is a success that counts every statement.
C20_FirstErrorEndsRun ==
    run.pc = "returned" =>
        IF Failing = {}
        THEN ReportsSuccess(Unwrap(run.returned))
        ELSE ReportsFailure(Unwrap(run.returned), Least(Failing),
                            Prefix(Least(Failing)), Prefix(Least(Failing) - 1))

\* The third statement failed after the first two had entered a folder and
\* set a variable.
C20_Witness ==
    /\ run.pc = "returned"
    /\ Len(run.script) = 3
    /\ ~Unwrap(run.returned).success
    /\ Unwrap(run.returned).statements_executed = 2
    /\ Len(context.folder_stack) > Len(ContextDefault.folder_stack)
    /\ context.variables # ContextDefault.variables

\* ----------------------------------------------------------------- FOR
\* parser::ForLoop
ForLoop(iterator_var, source_query, body) ==
    [iterator_var |-> iterator_var, source_query |-> source_query, body |-> body]

\* The variables a FOR loop over files binds before each turn.
bind_file(ctxt, var, file) ==
    LET named == set_variable(
                     set_variable(
                         set_variable(
                             set_variable(ctxt, var, [kind |-> "Path", v |-> file.path]),
                             var \o ".name", [kind |-> "String", v |-> file.name]),
                         var \o ".path", [kind |-> "Path", v |-> file.path]),
                     var \o ".size", [kind |-> "Size", v |-> file.size])
        with_ext == IF file.extension = Nothing THEN named
                    ELSE set_variable(named, var \o ".extension",
                                      [kind |-> "String", v |-> Unwrap(file.extension)])
    IN  set_variable(with_ext, var \o ".is_dir", [kind |-> "Boolean", v |-> file.is_dir])

\* The variables a FOR loop over processes binds before each turn; numbers
\* are in halves.
bind_process(ctxt, var, proc) ==
    set_variable(
        set_variable(
            set_variable(
                set_variable(
                    set_variable(ctxt, var, [kind |-> "String", v |-> proc.name]),
                    var \o ".name", [kind |-> "String", v |-> proc.name]),
                var \o ".pid", [kind |-> "Number", v |-> 2 * proc.pid]),
            var \o ".cpu", [kind |-> "Number", v |-> proc.cpu]),
        var \o ".memory", [kind |-> "Size", v |-> proc.memory])

bind_item(ctxt, var, item, kind) ==
    IF kind = "Files" THEN bind_file(ctxt, var, item) ELSE bind_process(ctxt, var, item)

\* The state of the loop: the outcome so far, the results pushed, and the
\* number of body statements begun.
ForState(ok, err, ctxt, state, results, begun) ==
    [ok |-> ok, err |-> err, context |-> ctxt, state |-> state,
     results |-> results, begun |-> begun]

\* `for cmd in &for_loop.body { results.push(execute_command_with_context(..)?) }`
RECURSIVE for_body(_, _, _, _)
for_body_rest(r, acc, cmd, rest, ctx, now) ==
    IF r.ok
    THEN for_body(rest, ForState(TRUE, None, r.context, r.state,
                                 Append(acc.results, cmd.kind), acc.begun + 1), ctx, now)
    ELSE ForState(FALSE, r.err, r.context, r.state, acc.results, acc.begun + 1)

for_body(body, acc, ctx, now) ==
    IF body = << >> THEN acc
    ELSE for_body_rest(
             execute_command_with_context(Head(body), ctx, acc.context, acc.state, now),
             acc, Head(body), Tail(body), ctx, now)

\* `for file in files { .. }` and `for proc in processes { .. }`
RECURSIVE for_items(_, _, _, _, _, _)
for_items_rest(acc, rest, kind, for_loop, ctx, now) ==
    IF acc.ok THEN for_items(rest, kind, for_loop, acc, ctx, now) ELSE acc

for_items(items, kind, for_loop, acc, ctx, now) ==
    IF items = << >> THEN acc
    ELSE for_items_rest(
             for_body(for_loop.body,
                      [acc EXCEPT !.context =
                          bind_item(acc.context, for_loop.iterator_var, Head(items), kind)],
                      ctx, now),
             Tail(items), kind, for_loop, ctx, now)

NoItemsMessage == [kind |-> "Message", text |-> "FOR loop completed (no items)"]

\* What execute_for_loop returns and leaves behind.
ForResult(acc, data, source) ==
    [ok |-> acc.ok, err |-> acc.err, context |-> acc.context, state |-> acc.state,
     data |-> data, begun |-> acc.begun, source |-> source]

\* The end of execute_for_loop, after the turns.
for_done(acc, source) ==
    IF ~acc.ok THEN ForResult(acc, None, source)
    ELSE IF acc.results = << >> THEN ForResult(acc, NoItemsMessage, source)
    ELSE ForResult(acc, [kind |-> "Multiple", results |-> acc.results], source)

\* execute_for_loop that runs the body once when there is nothing to
\* iterate over.
for_source_runsEmpty(source, for_loop, ctx, ctxt, state, now) ==
    IF ~source.ok
    THEN ForResult(ForState(FALSE, source.err, ctxt, state, << >>, 0), None, source)
    ELSE for_done(for_body(for_loop.body, ForState(TRUE, None, ctxt, state, << >>, 0),
                           ctx, now), source)

\* execute_for_loop from the answer `source` of its query.
for_source(source, for_loop, ctx, ctxt, state, now) ==
    IF ~source.ok
    THEN ForResult(ForState(FALSE, source.err, ctxt, state, << >>, 0), None, source)
    ELSE IF source.data.kind \notin {"Files", "Processes"}
    THEN ForResult(ForState(FALSE, "ExecutionError", ctxt, state, << >>, 0), None, source)
    ELSE for_done(for_items(source.data.items, source.data.kind, for_loop,
                            ForState(TRUE, None, ctxt, state, << >>, 0), ctx, now),
                  source)

execute_for_loop(for_loop, ctx, ctxt, state, now) ==
    for_source(execute_query(for_loop.source_query, ctx, ctxt, state),
               for_loop, ctx, ctxt, state, now)

\* ---------------------------------------------------------- FOR inputs
Q_where_name(name) ==
    Some(parse_where_clause(<< Condition(S_name, "Equal", VString(name)) >>))

ForQueries ==
    { QueryCommand("Files", Nothing, Nothing),
      QueryCommand("Files", Some(PathArg(TRUE, DataDir)), Nothing),
      QueryCommand("Files", Some(PathArg(FALSE, <<"x">>)), Nothing),
      QueryCommand("Files", Some(PathArg(TRUE, <<"home", "readme">>)), Nothing),
      QueryCommand("Files", Some(PathArg(TRUE, DataDir)), Q_where_name(S_a_txt)),
      QueryCommand("Process", Nothing, Nothing),
      QueryCommand("Process", Nothing, Q_where_name(S_worker)),
      QueryCommand("Process", Nothing, Q_where_name(S_node)),
      QueryCommand("Content", Nothing, Nothing),
      QueryCommand("Content", Some(PathArg(FALSE, <<"readme">>)), Nothing) }
    \cup { QueryCommand(t, Nothing, Nothing) :
              t \in {"Cpu", "Memory", "Disk", "Network", "System", "Battery"} }

ForBodies ==
    { << >>,
      << L_x >>,
      << L_x, Command_Context(ContextCommand_Exit) >>,
      << Command_Context(ContextCommand_EnterFolder(PathArg(FALSE, <<"proj">>))), L_x >>,
      << Command_Action(A_kill), Command_Query >>,
      << Command_Action(A_delete) >> }

ForInputs == { ForLoop("f", q, b) : q \in ForQueries, b \in ForBodies }

\* The interpreter runs one FOR statement.
ForExecuted(r) ==
    /\ context' = r.context
    /\ dir' = r.state.dir
    /\ procs' = r.state.procs
    /\ last' = [op |-> "for", ok |-> r.ok, err |-> r.err, data |-> r.data,
                begun |-> r.begun, source |-> r.source]

ExecuteFor ==
    /\ last = NoCall
    /\ ForExecuted(execute_for_loop(pending.for_loop, pending.ctx, context, system, clock))
    /\ UNCHANGED <<containers, active, clock, pending, before, validation, monitor, run>>

InitFor ==
    /\ context \in { ContextDefault, Unwrap({enter_file(ContextDefault,
                                                         PathArg(FALSE, <<"readme">>), 0).self}) }
    /\ containers = << >>
    /\ active = None
    /\ \E m \in RunMachines : dir = m.dir /\ procs = m.procs
    /\ clock = 0
    /\ pending \in [for_loop : ForInputs, ctx : ExecutionContexts]
    /\ last = NoCall
    /\ before = [dir |-> dir, procs |-> procs, context |-> context]
    /\ validation = Idle
    /\ monitor = Idle
    /\ run = Idle

NextFor == ExecuteFor

SpecFor == InitFor /\ [][NextFor]_vars

\* ------------------------------------------------------- FOR properties
\* The FOR statement has run and nothing of the Environment or the machine
\* has changed.
ForChangedNothing ==
    /\ context = before.context
    /\ dir = before.dir
    /\ procs = before.procs

\* C21: a FOR loop whose source query answers with an empty sequence runs
\* its body zero times and returns the "no items" result, not an Error; a
\* FOR loop over a query that is neither FILES nor PROCESS returns an Error
\* and runs no statement of its body.
C21_EmptyAndForeignSources ==
    last.op = "for" =>
        /\ (last.source.ok /\ last.source.data.kind \in {"Files", "Processes"}
                /\ last.source.data.items = << >>) =>
              /\ last.ok
              /\ last.data = NoItemsMessage
              /\ last.begun = 0
              /\ ForChangedNothing
        /\ pending.for_loop.source_query.target \notin {"Files", "Process"} =>
              /\ ~last.ok
              /\ last.begun = 0
              /\ ForChangedNothing

\* A loop with a body over a PROCESS query that matched nothing although
\* the table has processes.
C21_Witness ==
    /\ last.op = "for"
    /\ pending.for_loop.source_query.target = "Process"
    /\ pending.for_loop.body # << >>
    /\ procs # << >>
    /\ last.source.data.items = << >>
    /\ last.data = NoItemsMessage

\* ------------------------------------------------- interpreter session
\* Statements handed to execute_command_with_context one after another,
\* as a script or a caller of the library does.
MaxStatements == 3

Q_files == QueryCommand("Files", Nothing, Nothing)

\* The commands EXPLAIN is asked about.
Explained ==
    { Command_Action(A_delete), Command_Action(A_delete_all), Command_Action(A_kill),
      Command_Context(ContextCommand_EnterFolder(PathArg(FALSE, <<"proj">>))),
      Command_Context(ContextCommand_Reset),
      L_x,
      Command_Select(Q_files),
      Command_For(<< L_x >>),
      Command_Container_Create("dev", ContainerOptionsDefault, << L_x >>),
      Command_Explain(Command_Action(A_kill)) }

ContainerStatements ==
    { Command_Container_Create(n, o, << Command_Query >>) :
          n \in {"dev", "default"},
          o \in { ContainerOptionsDefault, [allow_actions |-> TRUE, readonly |-> FALSE] } }
    \cup { Command_Container_Create("tmp", ContainerOptionsDefault,
                                    << L_x, Command_Context(ContextCommand_Exit) >>) }
    \cup { Command_Container_Switch(n) : n \in {"dev", "default"} }
    \cup { Command_Container_Destroy(n) : n \in {"dev", "default"} }
    \cup { Command_Container_List }

ExecStatements ==
    { L_x,
      Command_Context(ContextCommand_EnterFolder(PathArg(FALSE, <<"proj">>))),
      Command_Action(A_kill),
      Command_Select(Q_files) }
    \cup { Command_Explain(c) : c \in Explained }
    \cup ContainerStatements

\* The same call made on a Container Registry.
registry_call(cmd, self, now) ==
    CASE cmd.cmd = "Create" -> create(self, cmd.name, cmd.options, now)
      [] cmd.cmd = "Switch" -> switch(self, cmd.name)
      [] cmd.cmd = "Destroy" -> destroy(self, cmd.name)
      [] OTHER -> Ok(self)

\* What the interpreter answered to cmd, next to what the registry did.
StatementExecuted(cmd, r, reg) ==
    /\ context' = r.context
    /\ dir' = r.state.dir
    /\ procs' = r.state.procs
    /\ containers' = reg.self.containers
    /\ active' = reg.self.active
    /\ last' = [op |-> cmd, ok |-> r.ok, err |-> r.err, data |-> r.data,
                invoked |-> r.invoked, registry_ok |-> reg.ok]
    /\ before' = [context |-> context, dir |-> dir, procs |-> procs]
    /\ clock' = clock + 1

ExecuteStatement(cmd) ==
    /\ clock < MaxStatements
    /\ StatementExecuted(cmd,
                         execute_command_with_context(cmd, pending.ctx, context, system, clock),
                         IF cmd.kind = "Container" THEN registry_call(cmd, manager, clock)
                         ELSE Ok(manager))
    /\ UNCHANGED <<pending, validation, monitor, run>>

InitExec ==
    /\ context = ContextDefault
    /\ containers = ContainerManager_new(0).containers
    /\ active = ContainerManager_new(0).active
    /\ dir = <<E_b, E_sub, E_c, E_a>>
    /\ procs = <<P_node, P_xinit, P_systemd>>
    /\ clock = 0
    /\ pending \in [ctx : ExecutionContexts]
    /\ last = NoCall
    /\ before = [context |-> context, dir |-> dir, procs |-> procs]
    /\ validation = Idle
    /\ monitor = Idle
    /\ run = Idle

NextExec == \E cmd \in ExecStatements : ExecuteStatement(cmd)

SpecExec == InitExec /\ [][NextExec]_vars

\* --------------------------------------------------- session properties
IsExplain == last # NoCall /\ last.op.kind = "Explain"

\* C22: EXPLAIN of a command returns an explanation and executes nothing:
\* the Environment and the machine are as before and no provider is called,
\* also for an action that the execution context would refuse.
C22_ExplainExecutesNothing ==
    IsExplain =>
        /\ last.ok
        /\ last.data.kind = "Explanation"
        /\ ~last.invoked
        /\ context = before.context
        /\ dir = before.dir
        /\ procs = before.procs

\* EXPLAIN of a DELETE FILES that would have been refused, in a session
\* that has moved the Environment before.
C22_Witness ==
    /\ IsExplain
    /\ last.op.inner = Command_Action(A_delete)
    /\ ~pending.ctx.allow_actions /\ ~pending.ctx.dry_run
    /\ context # ContextDefault
    /\ last.data = Explanation("DeleteFiles", << A_delete.path, TRUE >>)

IsContainerCommand == last # NoCall /\ last.op.kind = "Container"

\* The names LIST reported, and those it reported as active.
ListedNames == { Unwrap(last.data.containers)[i].name :
                    i \in DOMAIN Unwrap(last.data.containers) }
ListedActive == { Unwrap(last.data.containers)[i].name :
                    i \in { j \in DOMAIN Unwrap(last.data.containers) :
                               Unwrap(last.data.containers)[j].is_active } }

\* C24: a CREATE, SWITCH or DESTROY handed to the interpreter fails exactly
\* when the same call on the registry fails, and LIST reports the containers
\* created and not destroyed, with the active one.  The interpreter holds no
\* registry, so it does neither.
C24_InterpreterDelegates ==
    IsContainerCommand =>
        /\ last.op.cmd \in {"Create", "Switch", "Destroy"} => last.ok = last.registry_ok
        /\ last.op.cmd = "List" =>
              /\ last.ok
              /\ ListedNames = DOMAIN containers
              /\ ListedActive = {active}

\* ------------------------------------------------------------ the REPL
\* The execution context run_repl builds once, before its loop.
repl_exec_ctx == ExecutionContext(FALSE, FALSE)

\* The initialization body of CREATE CONTAINER in the REPL: every statement
\* is executed in the new container's Environment, a failing one is
\* reported and the next one is executed.
RECURSIVE repl_init_body(_, _, _, _)
repl_init_rest(r, rest, now) == repl_init_body(rest, r.context, r.state, now)

repl_init_body(body, ctxt, state, now) ==
    IF body = << >> THEN [context |-> ctxt, state |-> state]
    ELSE repl_init_rest(
             execute_command_with_context(Head(body), repl_exec_ctx, ctxt, state, now),
             Tail(body), now)

\* The registry and the machine after a line, and what the line reported.
ReplDone(cmd, self, state, ok, err) ==
    /\ containers' = self.containers
    /\ active' = self.active
    /\ dir' = state.dir
    /\ procs' = state.procs
    /\ last' = [op |-> cmd, ok |-> ok, err |-> err]
    /\ before' = manager
    /\ clock' = clock + 1

\* The Create arm of the REPL with the body run on the active container.
repl_created_inActive(cmd, r, init) ==
    IF ~r.ok THEN ReplDone(cmd, r.self, system, FALSE, r.err)
    ELSE ReplDone(cmd,
                  [r.self EXCEPT !.containers[active].context = init.context],
                  init.state, TRUE, None)

\* CREATE CONTAINER: r is the registry's answer, init the outcome of the
\* body in the Environment of the new container.
repl_created(cmd, r, init) ==
    IF ~r.ok THEN ReplDone(cmd, r.self, system, FALSE, r.err)
    ELSE ReplDone(cmd,
                  [r.self EXCEPT !.containers[cmd.name].context = init.context],
                  init.state, TRUE, None)

\* A regular command, executed in the active container's Environment.
repl_executed(cmd, r) ==
    ReplDone(cmd, [manager EXCEPT !.containers[active].context = r.context],
             r.state, r.ok, r.err)

\* SWITCH and DESTROY: r is the registry's answer.
repl_registry(cmd, r) == ReplDone(cmd, r.self, system, r.ok, r.err)

\* One complete line of input, parsed to cmd.
ReplLine(cmd) ==
    /\ clock < MaxStatements
    /\ IF cmd.kind = "Container" /\ cmd.cmd = "Create"
       THEN repl_created(cmd, create(manager, cmd.name, cmd.options, clock),
                         repl_init_body(cmd.body, ContextDefault, system, clock))
       ELSE IF cmd.kind = "Container" /\ cmd.cmd = "Switch"
       THEN repl_registry(cmd, switch(manager, cmd.name))
       ELSE IF cmd.kind = "Container" /\ cmd.cmd = "Destroy"
       THEN repl_registry(cmd, destroy(manager, cmd.name))
       ELSE IF cmd.kind = "Container"
       THEN repl_registry(cmd, Ok(manager))
       ELSE repl_executed(cmd,
               execute_command_with_context(cmd, repl_exec_ctx,
                                            active_container(manager).context,
                                            system, clock))
    /\ UNCHANGED <<context, pending, validation, monitor, run>>

AllowActions == [allow_actions |-> TRUE, readonly |-> FALSE]

ReplLines ==
    { Command_Container_Create("dev", AllowActions, << Command_Query >>),
      Command_Container_Create("dev", ContainerOptionsDefault, << Command_Query >>),
      Command_Container_Create("tmp", ContainerOptionsDefault,
                               << Command_Context(ContextCommand_Exit), L_x >>),
      Command_Container_Switch("dev"),
      Command_Container_Switch("tmp"),
      Command_Container_Switch("default"),
      Command_Container_Destroy("dev"),
      Command_Container_List,
      Command_Action(A_kill),
      Command_Action(A_delete),
      L_x,
      Command_Context(ContextCommand_EnterFolder(PathArg(FALSE, <<"proj">>))) }

InitRepl ==
    /\ context = ContextDefault
    /\ containers = ContainerManager_new(0).containers
    /\ active = ContainerManager_new(0).active
    /\ dir = <<E_b, E_sub, E_c, E_a>>
    /\ procs = <<P_node, P_xinit, P_systemd>>
    /\ clock = 0
    /\ pending = << >>
    /\ last = NoCall
    /\ before = ContainerManager_new(0)
    /\ validation = Idle
    /\ monitor = Idle
    /\ run = Idle

NextRepl == \E cmd \in ReplLines : ReplLine(cmd)

SpecRepl == InitRepl /\ [][NextRepl]_vars

\* ------------------------------------------------------ REPL properties
\* C23: an action executed while a container is active is permitted exactly
\* when that container was created WITH ALLOW ACTIONS.  The REPL executes
\* every command under its one execution context, which allows no action.
C23_ContainerFlagDecides ==
    last # NoCall /\ last.op.kind = "Action" =>
        (last.err # "ActionsDisabled" <=> before.containers[before.active].allow_actions)

\* ---------------------------------------------------- history property
\* C25: the history is append-only.  A successful enter_folder, enter_file,
\* exit_context or reset adds one entry at the end, a failing call and
\* set_variable add none, and the entries that were there stay as they were.
C25_HistoryAppendOnly ==
    last # NoCall =>
        IF last.ok /\ last.op \in {"enter_folder", "enter_file", "exit_context", "reset"}
        THEN /\ Len(context.history) = Len(before.history) + 1
             /\ SubSeq(context.history, 1, Len(before.history)) = before.history
        ELSE context.history = before.history

\* A reset of an Environment that already has three entries in its log.
C25_Witness ==
    /\ last.op = "reset"
    /\ Len(before.history) = 3
    /\ Len(context.history) = 4
    /\ context.history[4].action = "RESET CONTEXT"

\* -------------------------------------------------------- size literals
UpperChar(c) ==
    IF \E i \in 1..26 : LowerChars[i] = c
    THEN UpperChars[CHOOSE i \in 1..26 : LowerChars[i] = c]
    ELSE c

to_uppercase(s) == [i \in 1..Len(s) |-> UpperChar(s[i])]

ends_with(s, suffix) ==
    Len(s) >= Len(suffix) /\ SubSeq(s, Len(s) - Len(suffix) + 1, Len(s)) = suffix

\* A 64-bit magnitude is the sequence of its base-1024 digits, least
\* significant first, without leading zero digits.
RECURSIVE Limbs(_)
Limbs(n) == IF n = 0 THEN << >> ELSE <<n % 1024>> \o Limbs(n \div 1024)

RECURSIVE Trim(_)
Trim(l) ==
    IF l # << >> /\ l[Len(l)] = 0 THEN Trim(SubSeq(l, 1, Len(l) - 1)) ELSE l

Zeros(k) == [i \in 1..k |-> 0]

\* u64::MAX = 2^64 - 1
U64_MAX == <<1023, 1023, 1023, 1023, 1023, 1023, 15>>

IsDigit(c) == \E i \in 1..10 : DigitChars[i] = c

DigitValue(c) == (CHOOSE i \in 1..10 : DigitChars[i] = c) - 1

RECURSIVE decimal(_, _)
decimal(s, acc) ==
    IF s = << >> THEN acc ELSE decimal(Tail(s), 10 * acc + DigitValue(Head(s)))

Min2(a, b) == IF a <= b THEN a ELSE b

RECURSIVE Pow10(_)
Pow10(n) == IF n = 0 THEN 1 ELSE 10 * Pow10(n - 1)

\* str::parse::<f64> on a text of digits, "." and other letters (no sign,
\* exponent, "inf" or "nan" among them): digits with at most one ".", and at
\* least one digit.  The value is int + frac / scale, scale a power of ten;
\* the texts parsed have at most nine digits, and no product below comes
\* close enough to a whole number for the rounding of an f64 to matter.
parse_f64(s) ==
    LET dots == DotPositions(s)
    IN  IF \/ \E i \in 1..Len(s) : ~IsDigit(s[i]) /\ s[i] # "."
           \/ Cardinality(dots) > 1
           \/ Len(s) = Cardinality(dots)
        THEN Nothing
        ELSE LET d == IF dots = {} THEN Len(s) + 1 ELSE CHOOSE i \in dots : TRUE
             IN  Some([int |-> decimal(SubSeq(s, 1, d - 1), 0),
                       frac |-> decimal(SubSeq(s, d + 1, Len(s)), 0),
                       scale |-> Pow10(Len(s) - Min2(d, Len(s)))])

\* Long division of a magnitude by a small number, most significant digit
\* first; rem is the remainder carried in.
RECURSIVE DivSmall(_, _, _)
DivSmall(l, d, rem) ==
    IF l = << >> THEN << >>
    ELSE DivSmall(SubSeq(l, 1, Len(l) - 1), d, (rem * 1024 + l[Len(l)]) % d)
             \o <<(rem * 1024 + l[Len(l)]) \div d>>

\* (num * multiplier as f64) as u64, multiplier = 1024^k: the cast drops the
\* fraction and saturates at u64::MAX.
f64_times_as_u64(num, k) ==
    LET product == Trim(DivSmall(Zeros(k) \o Limbs(num.int * num.scale + num.frac),
                                 num.scale, 0))
    IN  IF Len(product) > 7 \/ (Len(product) = 7 /\ product[7] >= 16)
        THEN U64_MAX
        ELSE product

SizeOk(bytes) == [ok |-> TRUE, err |-> None, bytes |-> bytes]
SizeErr == [ok |-> FALSE, err |-> "ParseError", bytes |-> << >>]

parse_size_number(num_str, k) ==
    LET num == parse_f64(num_str)
    IN  IF num = Nothing THEN SizeErr ELSE SizeOk(f64_times_as_u64(Unwrap(num), k))

parse_size_value(s) ==
    LET s_upper == to_uppercase(s)
    IN  IF ends_with(s_upper, <<"T", "B">>)
        THEN parse_size_number(SubSeq(s, 1, Len(s) - 2), 4)
        ELSE IF ends_with(s_upper, <<"G", "B">>)
        THEN parse_size_number(SubSeq(s, 1, Len(s) - 2), 3)
        ELSE IF ends_with(s_upper, <<"M", "B">>)
        THEN parse_size_number(SubSeq(s, 1, Len(s) - 2), 2)
        ELSE IF ends_with(s_upper, <<"K", "B">>)
        THEN parse_size_number(SubSeq(s, 1, Len(s) - 2), 1)
        ELSE IF ends_with(s_upper, <<"B">>)
        THEN parse_size_number(SubSeq(s, 1, Len(s) - 1), 0)
        ELSE SizeErr

\* The literals parsed: a number text, known by its whole part and its
\* quarters, or a text that is no number, followed by a unit text, known by
\* its exponent k, or a text that is no unit.
FracText == << << >>, <<".", "2", "5">>, <<".", "5">>, <<".", "7", "5">> >>

SizeWholes == {0, 1, 100, 500, 1023, 1024, 16384, 1048576, 16777215, 16777216, 20000000}

NumberText(int, quarters) ==
    [text |-> Digits(int) \o FracText[quarters + 1], numeric |-> TRUE,
     int |-> int, quarters |-> quarters]

NoNumber(text) == [text |-> text, numeric |-> FALSE, int |-> 0, quarters |-> 0]

SizeNumbers ==
    { NumberText(i, q) : i \in SizeWholes, q \in 0..3 }
        \cup { NoNumber(t) : t \in { << >>, <<"x">>, <<"1", "x">>, <<".">>,
                                     <<"1", ".", "2", ".", "5">>, <<"x", "1">> } }

UnitText(text, k) == [text |-> text, k |-> k]

SizeUnits ==
    { UnitText(<<"B">>, 0), UnitText(<<"b">>, 0),
      UnitText(<<"K", "B">>, 1), UnitText(<<"k", "b">>, 1), UnitText(<<"K", "b">>, 1),
      UnitText(<<"M", "B">>, 2), UnitText(<<"m", "B">>, 2),
      UnitText(<<"G", "B">>, 3), UnitText(<<"g", "b">>, 3),
      UnitText(<<"T", "B">>, 4), UnitText(<<"t", "b">>, 4),
      UnitText(<< >>, -1), UnitText(<<"K">>, -1), UnitText(<<"B", "K">>, -1),
      UnitText(<<"P", "B", "s">>, -1) }

\* The parser reads one size literal.
ParseSize ==
    /\ last = NoCall
    /\ last' = [op |-> "parse_size_value"]
                   @@ parse_size_value(pending.num.text \o pending.unit.text)
    /\ UNCHANGED <<context, containers, active, dir, procs, clock, pending, before,
                   validation, monitor, run>>

InitSize ==
    /\ context = ContextDefault
    /\ containers = << >>
    /\ active = None
    /\ dir = << >>
    /\ procs = << >>
    /\ clock = 0
    /\ pending \in [num : SizeNumbers, unit : SizeUnits]
    /\ last = NoCall
    /\ before = NoCall
    /\ validation = Idle
    /\ monitor = Idle
    /\ run = Idle

NextSize == ParseSize

SpecSize == InitSize /\ [][NextSize]_vars

\* ------------------------------------------------- size literal property
\* floor(n * 1024^k) for n = int + quarters / 4, by long multiplication.
RECURSIVE MulSmall(_, _, _)
MulSmall(l, m, carry) ==
    IF l = << >> THEN Limbs(carry)
    ELSE <<(Head(l) * m + carry) % 1024>>
             \o MulSmall(Tail(l), m, (Head(l) * m + carry) \div 1024)

ExactBytes(int, quarters, k) ==
    IF k = 0 THEN Limbs(int)
    ELSE Trim(Zeros(k - 1) \o MulSmall(Limbs(4 * int + quarters), 256, 0))

\* C26: a literal made of a non-negative number n and a unit B, KB, MB, GB
\* or TB in any letter case parses to exactly floor(n * 1024^k) bytes,
\* k = 0..4; a literal with no valid unit or with a text that is no number
\* is a ParseError.
C26_SizeLiteralExact ==
    last # NoCall =>
        IF pending.num.numeric /\ pending.unit.k >= 0
        THEN /\ last.ok
             /\ last.bytes = ExactBytes(pending.num.int, pending.num.quarters,
                                        pending.unit.k)
        ELSE ~last.ok /\ last.err = "ParseError"

\* --------------------------------------------------------------- export
\* In this section the value of a text or path variable is its characters.
VBoolean(b) == [kind |-> "Boolean", v |-> b]
VPath(p) == [kind |-> "Path", v |-> p]

S_hi == <<"h", "i">>
S_tmp == <<"/", "t", "m", "p">>
S_my_folder == <<"/", "t", "m", "p", "/", "m", "y", " ", "f", "o", "l", "d", "e", "r">>

\* bytesize::ByteSize's Display (to_string with si_prefix = false): plain
\* bytes below 1000, otherwise one decimal of the largest power of 1000 that
\* fits, a blank and the unit.  Byte counts stay below 2^31.
bytesize_unit(bytes) ==
    IF bytes < 1000000 THEN [unit |-> 1000, prefix |-> "K"]
    ELSE IF bytes < 1000000000 THEN [unit |-> 1000000, prefix |-> "M"]
    ELSE [unit |-> 1000000000, prefix |-> "G"]

bytesize_to_string(bytes) ==
    IF bytes < 1000 THEN Digits(bytes) \o <<" ", "B">>
    ELSE LET u == bytesize_unit(bytes)
             tenths == (bytes + u.unit \div 20) \div (u.unit \div 10)
         IN  Digits(tenths \div 10) \o <<".">> \o Digits(tenths % 10)
                 \o <<" ", u.prefix, "B">>

\* impl Display for VariableValue.  A Number carries twice its value.
VariableValue_fmt(value) ==
    CASE value.kind = "String" -> <<"\"">> \o value.v \o <<"\"">>
      [] value.kind = "Number" ->
            Digits(value.v \div 2) \o (IF value.v % 2 = 1 THEN <<".", "5">> ELSE << >>)
      [] value.kind = "Size" -> bytesize_to_string(value.v)
      [] value.kind = "Boolean" ->
            IF value.v THEN <<"t", "r", "u", "e">> ELSE <<"f", "a", "l", "s", "e">>
      [] OTHER -> value.v

\* The script export writes: the text after "LET name = " of each binding
\* (names are distinct, so the order of the lines does not matter to a
\* replay) and the folder of the ENTER FOLDER line.
ExportOk(self, file) == [ok |-> TRUE, err |-> None, self |-> self, file |-> Some(file)]
ExportErr(self) == [ok |-> FALSE, err |-> "ExecutionError", self |-> self, file |-> Nothing]

export(self, name) ==
    IF ~contains_key(self, name)
    THEN ExportErr(self)
    ELSE LET container == self.containers[name]
         IN  ExportOk(self,
                 [lets |-> [n \in DOMAIN container.context.variables |->
                               VariableValue_fmt(container.context.variables[n])],
                  folder |-> current_folder(container.context)])

\* The grammar rule a LET value text falls under and the token it yields.
\* A string literal is double-quoted, a byte-count literal is a number that
\* carries a unit suffix (blanks before the unit are skipped here), a bare
\* path runs from "/" to the end of the text and holds no blank.
IsLetter(c) == \E i \in 1..26 : UpperChars[i] = c \/ LowerChars[i] = c

NoBlanks(text) == SelectSeq(text, LAMBDA c : c # " ")

let_value_rule(text) ==
    IF Len(text) >= 2 /\ text[1] = "\"" /\ text[Len(text)] = "\""
          /\ \A i \in 2..(Len(text) - 1) : text[i] # "\""
    THEN [rule |-> "string_value", token |-> text]
    ELSE IF to_uppercase(text) \in { <<"T", "R", "U", "E">>, <<"F", "A", "L", "S", "E">> }
    THEN [rule |-> "boolean", token |-> text]
    ELSE IF parse_f64(text) # Nothing
    THEN [rule |-> "number", token |-> text]
    ELSE IF text # << >> /\ IsDigit(text[1]) /\ parse_size_value(NoBlanks(text)).ok
    THEN [rule |-> "size_value", token |-> NoBlanks(text)]
    ELSE IF text # << >> /\ text[1] = "/" /\ \A i \in 1..Len(text) : text[i] # " "
    THEN [rule |-> "bare_path", token |-> text]
    ELSE IF text # << >> /\ \A i \in 1..Len(text) : IsLetter(text[i])
    THEN [rule |-> "identifier", token |-> text]
    ELSE [rule |-> "none", token |-> text]

\* A byte count below 2^31 as a number.
RECURSIVE FromLimbs(_)
FromLimbs(l) == IF l = << >> THEN 0 ELSE Head(l) + 1024 * FromLimbs(Tail(l))

starts_with(s, prefix) == Len(s) >= Len(prefix) /\ SubSeq(s, 1, Len(prefix)) = prefix

\* parse_let_value followed by execute_let's conversion to a VariableValue;
\* Nothing is a ParseError.
parse_let_value(pair) ==
    LET content == SubSeq(pair.token, 2, Len(pair.token) - 1)
        n == Unwrap(parse_f64(pair.token))
    IN  CASE pair.rule = "bare_path" -> Some(VPath(pair.token))
          [] pair.rule = "identifier" -> Some(VString(pair.token))
          [] pair.rule = "size_value" ->
                Some(VSize(FromLimbs(parse_size_value(pair.token).bytes)))
          [] pair.rule = "number" ->
                Some(VNumber(2 * n.int + (2 * n.frac) \div n.scale))
          [] pair.rule = "boolean" ->
                Some(VBoolean(to_uppercase(pair.token) = <<"T", "R", "U", "E">>))
          [] pair.rule = "string_value" ->
                IF starts_with(content, <<"/">>) \/ starts_with(content, <<"~", "/">>)
                THEN Some(VPath(content))
                ELSE Some(VString(content))
          [] OTHER -> Nothing

\* parse_script and the run of its statements in a fresh Environment: one
\* malformed statement fails the whole script, otherwise every LET binds its
\* value and ENTER FOLDER enters the folder.
replay(script, now) ==
    LET values == [n \in DOMAIN script.lets |->
                      parse_let_value(let_value_rule(script.lets[n]))]
    IN  IF \E n \in DOMAIN values : values[n] = Nothing
        THEN Err("ParseError", ContextDefault)
        ELSE enter_folder([ContextDefault EXCEPT
                              !.variables = [n \in DOMAIN values |-> Unwrap(values[n])]],
                          PathArg(TRUE, script.folder), now)

ExportNames == { "a", "b" }

ExportValues ==
    { VString(S_hi), VNumber(160), VNumber(3), VBoolean(TRUE), VBoolean(FALSE),
      VSize(512), VSize(1024), VSize(1500), VSize(104857600),
      VPath(S_tmp), VPath(S_my_folder) }

ExportTargets == { "default", "dev" }

InActive(self) ==
    /\ containers' = [containers EXCEPT ![active].context = self]
    /\ UNCHANGED <<context, active, dir, procs, clock, pending, last, before,
                   validation, monitor, run>>

\* LET in the active container.
ExportLet ==
    /\ last = NoCall
    /\ \E name \in ExportNames, value \in ExportValues :
          InActive(execute_let(Command_Let(name, value), containers[active].context).self)

\* ENTER FOLDER in the active container.
ExportEnter ==
    /\ last = NoCall
    /\ Len(containers[active].context.folder_stack) < 2
    /\ \E path \in PathInputs :
          LET r == enter_folder(containers[active].context, path, clock)
          IN  r.ok /\ InActive(r.self)

\* EXPORT CONTAINER name TO file.
Export ==
    /\ last = NoCall
    /\ \E name \in ExportTargets :
          last' = [op |-> "export", name |-> name] @@ export(manager, name)
    /\ UNCHANGED <<context, containers, active, dir, procs, clock, pending, before,
                   validation, monitor, run>>

\* The exported file is run as a script in a fresh Environment.
Replay ==
    /\ last.op = "export"
    /\ last.ok
    /\ run = Idle
    /\ run' = [pc |-> "replayed"] @@ replay(Unwrap(last.file), clock)
    /\ UNCHANGED <<context, containers, active, dir, procs, clock, pending, last, before,
                   validation, monitor>>

InitExport ==
    /\ context = ContextDefault
    /\ containers = ContainerManager_new(0).containers
    /\ active = DEFAULT_CONTAINER
    /\ dir = << >>
    /\ procs = << >>
    /\ clock = 0
    /\ pending = << >>
    /\ last = NoCall
    /\ before = NoCall
    /\ validation = Idle
    /\ monitor = Idle
    /\ run = Idle

NextExport == ExportLet \/ ExportEnter \/ Export \/ Replay

SpecExport == InitExport /\ [][NextExport]_vars

\* ------------------------------------------------------ export property
\* C27: the exported script replays: run in a fresh Environment it binds the
\* same names to values of the same kinds and the same values and ends in
\* the current folder of the exported container; the export of an absent
\* container is an Error and writes no file.
C27_ExportReplays ==
    /\ (last.op = "export" /\ last.name \notin DOMAIN containers) =>
           (~last.ok /\ last.file = Nothing)
    /\ run.pc = "replayed" =>
           /\ run.ok
           /\ run.self.variables = containers[last.name].context.variables
           /\ current_folder(run.self) = current_folder(containers[last.name].context)

\* ------------------------------------------------------ `arta run <file>`
\* The statements of the scripts run from the command line.  EXIT fails at
\* the root, DELETE FILES without a filter draws two Warnings and fails in
\* the provider, the container made without ALLOW ACTIONS draws a Warning
\* for the action in its body.
MainStatements ==
    { Command_Query,
      L_x,
      Command_Context(ContextCommand_Exit),
      Command_Action(A_delete),
      Command_Action(A_delete_all),
      Command_Container_Create("dev", ContainerOptionsDefault, << Command_Action(A_kill) >>) }

MainScripts == UNION { [1..n -> MainStatements] : n \in 0..MaxScript }

\* What `run` returns to main.
MainErr(run_state) == [run_state EXCEPT !.pc = "exit", !.exit = Some("ExecutionError")]

\* The front end going on to run a script whatever the validator reported.
MainValidate_ignoresErrors ==
    /\ run.pc = "validate"
    /\ validation' = [pc |-> "returned",
                      errors |-> validate_script(run.script,
                                     ValidationOptions(run.exec_ctx.allow_actions, FALSE, 10))]
    /\ run' = [run EXCEPT !.pc = "run_file"]
    /\ UNCHANGED <<context, containers, active, dir, procs, clock, pending, last, before,
                   monitor>>

\* validate_script on the parsed file and `if has_errors(..) { return Err }`.
MainValidate ==
    /\ run.pc = "validate"
    /\ validation' = [pc |-> "returned",
                      errors |-> validate_script(run.script,
                                     ValidationOptions(run.exec_ctx.allow_actions, FALSE, 10))]
    /\ run' = IF has_errors(validation'.errors)
              THEN MainErr(run)
              ELSE [run EXCEPT !.pc = "run_file"]
    /\ UNCHANGED <<context, containers, active, dir, procs, clock, pending, last, before,
                   monitor>>

\* ScriptRunner::run_file up to run_script: the extension of the file name
\* decides; the file is read and parsed a second time (no script arguments
\* are given, so none is bound).
MainRunFile ==
    /\ run.pc = "run_file"
    /\ run' = IF run.arta THEN [run EXCEPT !.pc = "loop"] ELSE MainErr(run)
    /\ UNCHANGED <<context, containers, active, dir, procs, clock, pending, last, before,
                   validation, monitor>>

\* `if !result.success { return Err(..) }` and the final Ok(()).
MainFinish ==
    /\ run.pc = "returned"
    /\ run' = [run EXCEPT
                  !.pc = "exit",
                  !.exit = IF Unwrap(run.returned).success THEN Some("Ok")
                           ELSE Some("ExecutionError")]
    /\ UNCHANGED <<context, containers, active, dir, procs, clock, pending, last, before,
                   validation, monitor>>

InitMain ==
    /\ context = ContextDefault
    /\ containers = << >>
    /\ active = None
    /\ dir = <<E_b, E_sub, E_c, E_a>>
    /\ procs = <<P_node, P_xinit, P_systemd>>
    /\ clock = 0
    /\ pending = << >>
    /\ last = NoCall
    /\ before = [dir |-> dir, procs |-> procs]
    /\ validation = Idle
    /\ monitor = Idle
    /\ \E script \in MainScripts, exec_ctx \in ExecutionContexts, arta \in BOOLEAN :
          run = [pc |-> "validate", script |-> script, exec_ctx |-> exec_ctx,
                 arta |-> arta, i |-> 1, results |-> << >>, statements_executed |-> 0,
                 attempts |-> << >>, returned |-> Nothing, exit |-> Nothing]

NextMain == MainValidate \/ MainRunFile \/ RunStatement \/ RunReturn \/ MainFinish

SpecMain == InitMain /\ [][NextMain]_vars

\* --------------------------------------------------- front end properties
\* No statement was handed to the interpreter and nothing changed.
NothingExecuted ==
    /\ run.attempts = << >>
    /\ context = ContextDefault
    /\ system = before

\* C28: a dry-run preview is always permitted: with dry_run set and
\* allow_actions unset, a script (in a .arta file) whose first statement is
\* an action is not refused before execution: the statement is handed to
\* the interpreter.
C28_DryRunPreviews ==
    (/\ run.pc = "exit"
     /\ run.exec_ctx.dry_run
     /\ ~run.exec_ctx.allow_actions
     /\ run.arta
     /\ run.script # << >>
     /\ run.script[1] = Command_Action(A_delete)) =>
        (run.attempts # << >> /\ run.attempts[1] = 1)

\* C29 as stated: after an Error of the validator nothing is executed and
\* the run fails; otherwise every statement is handed to the interpreter.
C29_Original ==
    run.pc = "exit" =>
        IF has_errors(validation.errors)
        THEN NothingExecuted /\ run.exit # Some("Ok")
        ELSE run.attempts = [j \in 1..Len(run.script) |-> j]

\* C29, amended: validation comes before execution; after an Error of the
\* validator nothing is executed and the run fails; otherwise the validator
\* does not halt the run: the runner refuses a file without the .arta
\* extension, and else hands the statements to the interpreter in order, up
\* to and including the first that fails, every one when none fails.
C29_ValidationBeforeExecution ==
    /\ run.attempts # << >> => (validation # Idle /\ ~has_errors(validation.errors))
    /\ run.pc = "exit" =>
          IF has_errors(validation.errors) \/ ~run.arta
          THEN NothingExecuted /\ run.exit # Some("Ok")
          ELSE IF Failing = {}
          THEN run.attempts = [j \in 1..Len(run.script) |-> j] /\ run.exit = Some("Ok")
          ELSE run.attempts = [j \in 1..Least(Failing) |-> j] /\ run.exit # Some("Ok")

\* A script of three statements that drew Warnings only and ran to its end.
C29_Witness ==
    /\ run.pc = "exit"
    /\ has_warnings(validation.errors)
    /\ ~has_errors(validation.errors)
    /\ run.attempts = <<1, 2, 3>>
    /\ run.exit = Some("Ok")

\* ------------------------------------------------------ ceiling property
\* A provider call of the run that is no preview.
ProviderCall ==
    /\ ExecuteDelete \/ ExecuteKill
    /\ last'.invoked
    /\ ~pending.ctx.dry_run

\* The provider's scan selected more records than the ceiling allows.
OverCeiling ==
    IF pending.source.rule = "delete_cmd"
    THEN /\ is_dir(TargetPath)
         /\ pending.source.where # << >>
         /\ Len(Candidates) > MAX_FILES_PER_OPERATION
    ELSE SelectedCount > MAX_PROCESSES_PER_OPERATION

\* Over the ceiling the call is a SecurityError that removes and kills
\* nothing, and no call removes more files or ends more processes than the
\* ceiling.
CeilingAllOrNothing ==
    /\ OverCeiling =>
          (~last'.ok /\ last'.err = "SecurityError" /\ dir' = dir /\ procs' = procs)
    /\ Cardinality(Range(dir) \ Range(dir')) <= MAX_FILES_PER_OPERATION
    /\ Cardinality(Range(procs) \ Range(procs')) <= MAX_PROCESSES_PER_OPERATION

NoFilterDelete == pending.source.rule = "delete_cmd" /\ pending.source.where = << >>

\* C30 as stated: the ceiling is all-or-nothing, and DELETE FILES with no
\* filter returns a SecurityError and removes nothing.
C30_Original ==
    [][ ProviderCall =>
          /\ CeilingAllOrNothing
          /\ NoFilterDelete =>
                (~last'.ok /\ last'.err = "SecurityError" /\ dir' = dir) ]_vars

\* C30, amended: the ceiling is all-or-nothing: a call that is no preview
\* and selects more than 100 files (more than 10 unprotected processes) is
\* a SecurityError that removes and kills nothing, so no call affects more
\* than 100 files or 10 processes; DELETE FILES with no filter removes
\* nothing and is an Error: PathNotFound for a missing path, ExecutionError
\* for a path that is no directory, SecurityError otherwise.
C30_CeilingAllOrNothing ==
    [][ ProviderCall =>
          /\ CeilingAllOrNothing
          /\ NoFilterDelete =>
                /\ ~last'.ok
                /\ dir' = dir
                /\ last'.err = IF ~exists(TargetPath) THEN "PathNotFound"
                               ELSE IF ~is_dir(TargetPath) THEN "ExecutionError"
                               ELSE "SecurityError" ]_vars

\* DELETE FILES with a filter that 101 files pass, refused with every file
\* left in place.
C30_Witness ==
    /\ last.op = "execute_action"
    /\ last.invoked
    /\ ~pending.ctx.dry_run
    /\ pending.source.rule = "delete_cmd"
    /\ pending.source.where # << >>
    /\ last.err = "SecurityError"
    /\ Len(Candidates) = MAX_FILES_PER_OPERATION + 1
    /\ dir = before.dir

\* ------------------------------------------------ unknown field property
\* The condition names a field the records of the command do not have.
UnknownField(c) ==
    IF pending.source.rule = "delete_cmd"
    THEN to_lowercase(c.field) \notin { S_size, S_name, S_extension, S_ext }
    ELSE to_lowercase(c.field) \notin { S_pid, S_name, S_cpu, S_memory }

\* C31: a DELETE FILES (on an existing directory) or KILL PROCESS whose
\* filter names an unknown field is an Error and affects no record: the
\* unknown field is never silently treated as matching.
C31_UnknownFieldIsError ==
    [][ (/\ ExecuteDelete \/ ExecuteKill
         /\ last'.invoked
         /\ pending.source.rule = "delete_cmd" => is_dir(TargetPath)
         /\ \E c \in WrittenConditions(pending.source.where) : UnknownField(c)) =>
            (~last'.ok /\ dir' = dir /\ procs' = procs) ]_vars

\* ------------------------------------------------- filtered FOR property
\* The entries of the directory that satisfy the filter of the source query.
Satisfying(where_clause) ==
    { e \in Range(before.dir) :
        matches_file_where_clause([name |-> e.name, size |-> e.size,
                                   extension |-> extension(e.name)], where_clause) }

\* C32: a FILES query with a filter returns only the entries that satisfy
\* the filter, and a FOR loop over it begins the statements of its body
\* only for those entries.
C32_FilteredFilesOnly ==
    (/\ last.op = "for"
     /\ pending.for_loop.source_query.target = "Files"
     /\ pending.for_loop.source_query.where_clause # Nothing
     /\ last.source.ok) =>
        LET where_clause == Unwrap(pending.for_loop.source_query.where_clause)
        IN  /\ \A i \in DOMAIN last.source.data.items :
                  \E e \in Satisfying(where_clause) :
                      e.name = last.source.data.items[i].name
            /\ last.begun <= Cardinality(Satisfying(where_clause))
                                * Len(pending.for_loop.body)

\* ------------------------------------------------ shadow variable property
\* The shadow variables of iterator variable var describe the file item.
DescribesFile(bound, var, item) ==
    /\ bound[var] = [kind |-> "Path", v |-> item.path]
    /\ bound[var \o ".name"] = [kind |-> "String", v |-> item.name]
    /\ bound[var \o ".path"] = [kind |-> "Path", v |-> item.path]
    /\ bound[var \o ".size"] = [kind |-> "Size", v |-> item.size]
    /\ bound[var \o ".is_dir"] = [kind |-> "Boolean", v |-> item.is_dir]
    /\ (var \o ".extension") \in DOMAIN bound =>
          item.extension = Some(bound[var \o ".extension"].v)

DescribesProcess(bound, var, item) ==
    /\ bound[var] = [kind |-> "String", v |-> item.name]
    /\ bound[var \o ".name"] = [kind |-> "String", v |-> item.name]
    /\ bound[var \o ".pid"] = [kind |-> "Number", v |-> 2 * item.pid]
    /\ bound[var \o ".cpu"] = [kind |-> "Number", v |-> item.cpu]
    /\ bound[var \o ".memory"] = [kind |-> "Size", v |-> item.memory]

\* C38: the iterator variable and every shadow variable describe the item
\* the body runs for, none holds a value of an earlier item.  The bodies
\* here bind no variable of the iterator, so the variables left by a loop
\* that ran to its end are those its body saw in the turn of the last item.
C38_ShadowsDescribeCurrentItem ==
    (/\ last.op = "for"
     /\ last.ok
     /\ pending.for_loop.body # << >>
     /\ last.source.data.items # << >>) =>
        LET items == last.source.data.items
            item == items[Len(items)]
        IN  IF last.source.data.kind = "Files"
            THEN DescribesFile(context.variables, pending.for_loop.iterator_var, item)
            ELSE DescribesProcess(context.variables, pending.for_loop.iterator_var, item)

\* ------------------------------------------------------------ IF statement
\* parser::IfStatement and parser::IfCondition.
IfCondition(target, field, operator, value) ==
    [target |-> target, field |-> field, operator |-> operator, value |-> value]

IfStatement(condition, then_body, else_body) ==
    [condition |-> condition, then_body |-> then_body, else_body |-> else_body]

VIdentifier(id) == [kind |-> "Identifier", v |-> id]

\* The f64 a field resolves to, in halves, or the ExecutionError.
FieldOk(h) == [ok |-> TRUE, err |-> None, value |-> h]
FieldErr == [ok |-> FALSE, err |-> "ExecutionError", value |-> 0]

get_memory_field_value(info, field) ==
    CASE to_lowercase(field) \in
          { <<"t", "o", "t", "a", "l">>,
            <<"t", "o", "t", "a", "l", "_", "b", "y", "t", "e", "s">> } ->
            FieldOk(2 * info.total)
      [] to_lowercase(field) \in
          { <<"u", "s", "e", "d">>,
            <<"u", "s", "e", "d", "_", "b", "y", "t", "e", "s">> } ->
            FieldOk(2 * info.used)
      [] to_lowercase(field) \in
          { <<"f", "r", "e", "e">>,
            <<"f", "r", "e", "e", "_", "b", "y", "t", "e", "s">> } ->
            FieldOk(2 * info.free)
      [] to_lowercase(field) \in
          { <<"a", "v", "a", "i", "l", "a", "b", "l", "e">>,
            <<"a", "v", "a", "i", "l", "a", "b", "l", "e", "_", "b", "y", "t", "e", "s">> } ->
            FieldOk(2 * info.available)
      [] to_lowercase(field) \in
          { <<"u", "s", "e", "d", "_", "p", "e", "r", "c", "e", "n", "t">>,
            <<"p", "e", "r", "c", "e", "n", "t">>,
            <<"u", "s", "a", "g", "e">>,
            <<"u", "s", "a", "g", "e", "_", "p", "e", "r", "c", "e", "n", "t">> } ->
            FieldOk(info.usage_percent)
      [] OTHER -> FieldErr

get_cpu_field_value(info, field) ==
    CASE to_lowercase(field) \in
          { <<"u", "s", "a", "g", "e">>,
            <<"p", "e", "r", "c", "e", "n", "t">>,
            <<"u", "s", "e", "d", "_", "p", "e", "r", "c", "e", "n", "t">>,
            <<"u", "s", "a", "g", "e", "_", "p", "e", "r", "c", "e", "n", "t">> } ->
            FieldOk(info.usage)
      [] to_lowercase(field) \in
          { <<"c", "o", "r", "e", "s">>,
            <<"c", "o", "r", "e", "_", "c", "o", "u", "n", "t">> } ->
            FieldOk(2 * info.cores)
      [] to_lowercase(field) \in
          { <<"f", "r", "e", "q", "u", "e", "n", "c", "y">>,
            <<"f", "r", "e", "q", "u", "e", "n", "c", "y", "_", "m", "h", "z">> } ->
            FieldOk(2 * info.frequency)
      [] OTHER -> FieldErr

first_disk_field_value(info, field) ==
    CASE to_lowercase(field) \in
          { <<"t", "o", "t", "a", "l">>,
            <<"t", "o", "t", "a", "l", "_", "b", "y", "t", "e", "s">> } ->
            FieldOk(2 * info.total)
      [] to_lowercase(field) \in
          { <<"u", "s", "e", "d">>,
            <<"u", "s", "e", "d", "_", "b", "y", "t", "e", "s">> } ->
            FieldOk(2 * info.used)
      [] to_lowercase(field) \in
          { <<"f", "r", "e", "e">>,
            <<"f", "r", "e", "e", "_", "b", "y", "t", "e", "s">>,
            <<"a", "v", "a", "i", "l", "a", "b", "l", "e">>,
            <<"a", "v", "a", "i", "l", "a", "b", "l", "e", "_", "b", "y", "t", "e", "s">> } ->
            FieldOk(2 * info.free)
      [] to_lowercase(field) \in
          { <<"u", "s", "e", "d", "_", "p", "e", "r", "c", "e", "n", "t">>,
            <<"p", "e", "r", "c", "e", "n", "t">>,
            <<"u", "s", "a", "g", "e">> } ->
            FieldOk(info.usage_percent)
      [] OTHER -> FieldErr

first_battery_field_value(info, field) ==
    CASE to_lowercase(field) \in
          { <<"p", "e", "r", "c", "e", "n", "t">>,
            <<"c", "h", "a", "r", "g", "e">>,
            <<"l", "e", "v", "e", "l">>,
            <<"c", "h", "a", "r", "g", "e", "_", "p", "e", "r", "c", "e", "n", "t">>,
            <<"p", "e", "r", "c", "e", "n", "t", "a", "g", "e">> } ->
            FieldOk(info.percentage)
      [] OTHER -> FieldErr

get_disk_field_value(info, field) ==
    IF info.disks = << >> THEN FieldErr
    ELSE first_disk_field_value(Head(info.disks), field)

\* Without a battery the answer is 100.0 whatever the field.
get_battery_field_value(info, field) ==
    IF info.batteries = << >> THEN FieldOk(200)
    ELSE first_battery_field_value(Head(info.batteries), field)

\* The outcome of evaluating a condition: Ok(met) or the error.
Met(b) == [ok |-> TRUE, err |-> None, met |-> b]
NotMet == [ok |-> FALSE, err |-> "ExecutionError", met |-> FALSE]

\* `let expected_num = match expected { .. }`, in halves.
expected_number(expected, ctxt) ==
    CASE expected.kind = "Number" -> Some(expected.v)
      [] expected.kind = "Size" -> Some(2 * expected.v)
      [] expected.kind = "Identifier" ->
            IF expected.v \notin DOMAIN ctxt.variables THEN Nothing
            ELSE IF ctxt.variables[expected.v].kind = "Number"
            THEN Some(ctxt.variables[expected.v].v)
            ELSE IF ctxt.variables[expected.v].kind = "Size"
            THEN Some(2 * ctxt.variables[expected.v].v)
            ELSE Nothing
      [] OTHER -> Nothing

\* Halves that differ are at least 0.5 apart, more than the 0.001 of Equal.
compare_values(actual, operator, expected, ctxt) ==
    IF expected_number(expected, ctxt) = Nothing THEN NotMet
    ELSE IF operator \notin {"GreaterThan", "GreaterThanOrEqual", "LessThan",
                             "LessThanOrEqual", "Equal", "NotEqual"}
    THEN NotMet
    ELSE Met(compare_numbers(actual, Unwrap(expected_number(expected, ctxt)), operator))

compare_field(field_value, condition, ctxt) ==
    IF ~field_value.ok THEN NotMet
    ELSE compare_values(field_value.value, condition.operator, condition.value, ctxt)

\* info holds what the providers answer when asked: the memory and cpu
\* records, the disks, and the batteries or the failure of the battery
\* manager.
evaluate_if_condition(condition, ctxt, info) ==
    CASE condition.target = "Memory" ->
            compare_field(get_memory_field_value(info.memory, condition.field),
                          condition, ctxt)
      [] condition.target = "Cpu" ->
            compare_field(get_cpu_field_value(info.cpu, condition.field), condition, ctxt)
      [] condition.target = "Disk" ->
            compare_field(get_disk_field_value(info.disk, condition.field), condition, ctxt)
      [] condition.target = "Battery" ->
            IF info.battery = Nothing THEN NotMet
            ELSE compare_field(get_battery_field_value(Unwrap(info.battery),
                                                       condition.field),
                               condition, ctxt)
      [] OTHER -> NotMet

\* What execute_if returns and leaves behind; `begun` counts the branch
\* statements begun, `condition` is what the evaluation answered.
IfResult(acc, data, condition) ==
    [ok |-> acc.ok, err |-> acc.err, context |-> acc.context, state |-> acc.state,
     data |-> data, begun |-> acc.begun, condition |-> condition]

\* The end of a branch: the single result or ResultData::Multiple.
if_done(acc, condition) ==
    IF ~acc.ok THEN IfResult(acc, None, condition)
    ELSE IF Len(acc.results) = 1
    THEN IfResult(acc, [kind |-> acc.results[1]], condition)
    ELSE IfResult(acc, [kind |-> "Multiple", results |-> acc.results], condition)

IfEmpty == [kind |-> "Empty", message |-> "IF condition was false"]

\* execute_if that takes a condition it cannot evaluate for a false one.
execute_if_errorIsFalse(if_stmt, condition, ctx, ctxt, state, now) ==
    IF condition.ok /\ condition.met
    THEN if_done(for_body(if_stmt.then_body, ForState(TRUE, None, ctxt, state, << >>, 0),
                          ctx, now), condition)
    ELSE IF if_stmt.else_body # Nothing
    THEN if_done(for_body(Unwrap(if_stmt.else_body),
                          ForState(TRUE, None, ctxt, state, << >>, 0), ctx, now),
                 condition)
    ELSE IfResult(ForState(TRUE, None, ctxt, state, << >>, 0), IfEmpty, condition)

\* execute_if from the answer `condition` of evaluate_if_condition; the
\* loops over then_body and else_body are the loop of for_body.
execute_if(if_stmt, condition, ctx, ctxt, state, now) ==
    IF ~condition.ok
    THEN IfResult(ForState(FALSE, condition.err, ctxt, state, << >>, 0), None, condition)
    ELSE IF condition.met
    THEN if_done(for_body(if_stmt.then_body, ForState(TRUE, None, ctxt, state, << >>, 0),
                          ctx, now), condition)
    ELSE IF if_stmt.else_body # Nothing
    THEN if_done(for_body(Unwrap(if_stmt.else_body),
                          ForState(TRUE, None, ctxt, state, << >>, 0), ctx, now),
                 condition)
    ELSE IfResult(ForState(TRUE, None, ctxt, state, << >>, 0), IfEmpty, condition)

\* --------------------------------------------------------------- IF inputs
S_usage == <<"u", "s", "a", "g", "e">>
S_USAGE == <<"U", "S", "A", "G", "E">>
S_bogus == <<"b", "o", "g", "u", "s">>
S_percent == <<"p", "e", "r", "c", "e", "n", "t">>
S_total == <<"t", "o", "t", "a", "l">>

\* Conditions whose evaluation is an error on every machine: an unsupported
\* target, an unknown field, an unknown variable, a variable that holds no
\* number, a value that is no number, an operator of strings.
IfErrorConditions ==
    { IfCondition("Process", S_usage, "GreaterThan", VNumber(100)),
      IfCondition("Files", S_size, "GreaterThan", VNumber(100)),
      IfCondition("Memory", S_bogus, "GreaterThan", VNumber(100)),
      IfCondition("Cpu", S_total, "LessThan", VNumber(100)),
      IfCondition("Memory", S_usage, "GreaterThan", VIdentifier("nope")),
      IfCondition("Memory", S_usage, "GreaterThan", VIdentifier("s")),
      IfCondition("Cpu", S_usage, "Equal", VString(S_hi)),
      IfCondition("Memory", S_usage, "Like", VNumber(100)) }

IfConditions ==
    IfErrorConditions \cup
    { IfCondition("Memory", S_usage, "GreaterThan", VNumber(100)),
      IfCondition("Memory", S_USAGE, "LessThanOrEqual", VIdentifier("n")),
      IfCondition("Memory", S_total, "GreaterThanOrEqual", VSize(16)),
      IfCondition("Cpu", S_percent, "LessThan", VNumber(100)),
      IfCondition("Cpu", S_usage, "Equal", VNumber(40)),
      IfCondition("Disk", S_usage, "NotEqual", VNumber(150)),
      IfCondition("Disk", S_bogus, "GreaterThan", VNumber(100)),
      IfCondition("Battery", S_percent, "LessThanOrEqual", VNumber(40)),
      IfCondition("Battery", S_bogus, "GreaterThan", VNumber(100)) }

\* What the providers answer; percentages in halves of a point.
MemoryInfo(total, used, usage_percent) ==
    [total |-> total, used |-> used, free |-> total - used, available |-> total - used,
     usage_percent |-> usage_percent]
CpuInfo(cores, usage) == [cores |-> cores, usage |-> usage, frequency |-> 2400]
DiskEntry(total, used, usage_percent) ==
    [total |-> total, used |-> used, free |-> total - used,
     usage_percent |-> usage_percent]

IfReadings ==
    { [memory |-> MemoryInfo(16, 4, 50), cpu |-> CpuInfo(4, 40),
       disk |-> [disks |-> << >>], battery |-> Nothing],
      [memory |-> MemoryInfo(16, 12, 150), cpu |-> CpuInfo(4, 160),
       disk |-> [disks |-> << DiskEntry(100, 75, 150) >>],
       battery |-> Some([batteries |-> << >>])],
      [memory |-> MemoryInfo(8, 4, 100), cpu |-> CpuInfo(2, 100),
       disk |-> [disks |-> << DiskEntry(100, 20, 40), DiskEntry(100, 75, 150) >>],
       battery |-> Some([batteries |-> << [percentage |-> 30] >>])] }

L_then == Command_Let("t", [kind |-> "Number", v |-> 2])
L_else == Command_Let("e", [kind |-> "Number", v |-> 4])

IfThenBodies ==
    { << L_then >>,
      << L_then, Command_Context(ContextCommand_Exit) >>,
      << Command_Action(A_delete), L_then >> }

IfElseBodies ==
    { Nothing,
      Some(<< L_else >>),
      Some(<< Command_Context(ContextCommand_EnterFolder(PathArg(FALSE, <<"proj">>))),
              L_else >>),
      Some(<< Command_Action(A_kill), L_else >>) }

IfInputs ==
    { IfStatement(c, t, e) : c \in IfConditions, t \in IfThenBodies, e \in IfElseBodies }

IfContexts ==
    { set_variable(set_variable(ContextDefault, "n", [kind |-> "Number", v |-> 100]),
                   "s", [kind |-> "String", v |-> S_hi]),
      set_variable(set_variable(ContextDefault, "n", [kind |-> "Size", v |-> 75]),
                   "s", [kind |-> "Boolean", v |-> TRUE]) }

\* The interpreter runs one IF statement.
IfExecuted(r) ==
    /\ context' = r.context
    /\ dir' = r.state.dir
    /\ procs' = r.state.procs
    /\ last' = [op |-> "if", ok |-> r.ok, err |-> r.err, data |-> r.data,
                begun |-> r.begun, condition |-> r.condition]

ExecuteIf ==
    /\ last = NoCall
    /\ IfExecuted(execute_if(pending.if_stmt,
                             evaluate_if_condition(pending.if_stmt.condition, context,
                                                   pending.info),
                             pending.ctx, context, system, clock))
    /\ UNCHANGED <<containers, active, clock, pending, before, validation, monitor, run>>

InitIf ==
    /\ context \in IfContexts
    /\ containers = << >>
    /\ active = None
    /\ dir = <<E_b, E_sub, E_c, E_a>>
    /\ procs = <<P_node, P_xinit, P_systemd>>
    /\ clock = 0
    /\ pending \in [if_stmt : IfInputs, info : IfReadings,
                    ctx : { ExecutionContext(FALSE, a) : a \in BOOLEAN }]
    /\ last = NoCall
    /\ before = [dir |-> dir, procs |-> procs, context |-> context]
    /\ validation = Idle
    /\ monitor = Idle
    /\ run = Idle

NextIf == ExecuteIf

SpecIf == InitIf /\ [][NextIf]_vars

\* ----------------------------------------------------------- IF properties
IfChangedNothing ==
    /\ context = before.context
    /\ dir = before.dir
    /\ procs = before.procs

RanThen == "t" \in DOMAIN context.variables
RanElse == "e" \in DOMAIN context.variables

\* C33: an IF whose condition holds runs statements of its THEN body and
\* none of its ELSE body; one whose condition fails runs statements of its
\* ELSE body and none of its THEN body, or, without ELSE, runs nothing and
\* answers the empty result.  A condition that cannot be evaluated is an
\* error: no branch statement runs and the Environment is unchanged.
C33_IfRunsOneBranch ==
    last.op = "if" =>
        /\ pending.if_stmt.condition \in IfErrorConditions => ~last.condition.ok
        /\ ~last.condition.ok =>
              ~last.ok /\ last.begun = 0 /\ IfChangedNothing
        /\ (last.condition.ok /\ last.condition.met) =>
              /\ ~RanElse
              /\ 1 <= last.begun /\ last.begun <= Len(pending.if_stmt.then_body)
              /\ last.ok => (last.begun = Len(pending.if_stmt.then_body) /\ RanThen)
        /\ (last.condition.ok /\ ~last.condition.met
                /\ pending.if_stmt.else_body # Nothing) =>
              /\ ~RanThen
              /\ 1 <= last.begun
              /\ last.begun <= Len(Unwrap(pending.if_stmt.else_body))
              /\ last.ok => (last.begun = Len(Unwrap(pending.if_stmt.else_body))
                             /\ RanElse)
        /\ (last.condition.ok /\ ~last.condition.met
                /\ pending.if_stmt.else_body = Nothing) =>
              last.ok /\ last.begun = 0 /\ last.data = IfEmpty /\ IfChangedNothing

\* An IF with an ELSE body whose condition could not be evaluated.
C33_Witness ==
    /\ last.op = "if"
    /\ pending.if_stmt.condition \in IfErrorConditions
    /\ pending.if_stmt.else_body # Nothing
    /\ ~last.ok

\* ------------------------------------------------- failing enter property
\* The node a path argument named in the Environment of the call, NoPath
\* if none.
Named(path) == canonicalize(resolve_path(before, path))

\* C34: enter-folder of a path that names no folder (nothing, or a file) and
\* enter-file of a path that names no file (nothing, or a folder) return an
\* error and leave the folder stack, the focused file, the variables and
\* the history as they were.
C34_FailingEnterChangesNothing ==
    /\ (last.op = "enter_folder" /\ Named(last.arg) \notin Dirs) =>
          (~last.ok /\ context = before)
    /\ (last.op = "enter_file" /\ Named(last.arg) \notin Files) =>
          (~last.ok /\ context = before)

\* enter-file of a folder was refused in an Environment that holds a focused
\* file, a variable and a history.
C34_Witness ==
    /\ last.op = "enter_file"
    /\ ~last.ok
    /\ Named(last.arg) \in Dirs
    /\ context = before
    /\ context.current_file # None
    /\ context.variables # << >>
    /\ Len(context.folder_stack) > 1

\* ------------------------------------------- container initialization
\* CREATE CONTAINER with a body, given to the REPL or to the interpreter.
E_proj == Command_Context(ContextCommand_EnterFolder(PathArg(FALSE, <<"proj">>)))

InitLines ==
    { Command_Container_Create("dev", ContainerOptionsDefault, << E_proj, L_x >>),
      Command_Container_Create("tmp", AllowActions, << L_x >>),
      Command_Container_Create("ci", ContainerOptionsDefault,
                               << L_x, Command_Action(A_kill) >>),
      Command_Container_Switch("dev"),
      Command_Container_Switch("tmp"),
      L_then,
      Command_Context(ContextCommand_EnterFolder(PathArg(TRUE, DataDir))) }

\* One line on the path the session was started on.
InitLine(cmd) ==
    IF pending.path = "repl" THEN ReplLine(cmd) ELSE ExecuteStatement(cmd)

InitInit ==
    /\ context = ContextDefault
    /\ containers = ContainerManager_new(0).containers
    /\ active = ContainerManager_new(0).active
    /\ dir = <<E_b, E_sub, E_c, E_a>>
    /\ procs = <<P_node, P_xinit, P_systemd>>
    /\ clock = 0
    /\ pending \in [path : {"repl", "interpreter"}, ctx : ExecutionContexts]
    /\ last = NoCall
    /\ before = ContainerManager_new(0)
    /\ validation = Idle
    /\ monitor = Idle
    /\ run = Idle

NextInit == \E cmd \in InitLines : InitLine(cmd)

SpecInit == InitInit /\ [][NextInit]_vars

\* What the statements E_proj and L_x of a body leave in the Environment
\* `to` when they ran in the Environment `from`.
BodyRanIn(body, from, to) ==
    /\ "x" \in DOMAIN to.variables
    /\ to.variables["x"] = L_x.value
    /\ \A n \in DOMAIN from.variables \ {"x"} :
          n \in DOMAIN to.variables /\ to.variables[n] = from.variables[n]
    /\ to.folder_stack =
          IF E_proj \in Range(body)
          THEN Append(from.folder_stack, current_folder(from) \o <<"proj">>)
          ELSE from.folder_stack

IsCreate == last # NoCall /\ last.op.kind = "Container" /\ last.op.cmd = "Create"

\* C35: in the REPL the body of a CREATE CONTAINER that succeeded ran in the
\* Environment of the new container: every container that existed, the
\* active one among them, and the active name are as before.  In the
\* interpreter the body ran in the Environment of the caller.
C35_InitBodyEnvironment ==
    (IsCreate /\ last.ok) =>
        IF pending.path = "repl"
        THEN /\ active = before.active
             /\ \A n \in DOMAIN before.containers :
                   n \in DOMAIN containers /\ containers[n] = before.containers[n]
             /\ BodyRanIn(last.op.body, ContextDefault, containers[last.op.name].context)
        ELSE BodyRanIn(last.op.body, before.context, context)

\* The REPL created a container with a body while another container than
\* "default" was active.
C35_Witness ==
    /\ IsCreate
    /\ last.ok
    /\ pending.path = "repl"
    /\ active # DEFAULT_CONTAINER
    /\ E_proj \in Range(last.op.body)
    /\ folder_depth(containers[last.op.name].context) = 2
    /\ folder_depth(containers[active].context) = 1

\* --------------------------------------------- container rule property
\* An issue of the container rule.
IsContainerIssue(e) == Len(e.message) = 3 /\ e.message[2] = "action in container"

\* The issues of the container rule reported for statement i.
ContainerIssues(i) ==
    SelectSeq(validation.errors, LAMBDA e : e.line = i /\ IsContainerIssue(e))

\* Statement i is a CREATE CONTAINER whose body is one Action.
CreatesWithAction(i) ==
    /\ validation.script[i].kind = "Container"
    /\ validation.script[i].cmd = "Create"
    /\ Len(validation.script[i].body) = 1
    /\ validation.script[i].body[1].kind = "Action"

\* C36: for an Action that is a statement of a CREATE CONTAINER body the
\* container rule reports one Warning naming the container and the action
\* when the container lacks ALLOW ACTIONS and nothing when it has it; no
\* issue of the rule is an Error, and when the options of the validation
\* allow actions the statement has no Error at all.
C36_ContainerRuleWarnsOnly ==
    Validated =>
        /\ \A k \in DOMAIN validation.errors :
              IsContainerIssue(validation.errors[k]) =>
                  validation.errors[k].severity = "Warning"
        /\ \A i \in DOMAIN validation.script :
              CreatesWithAction(i) =>
                  LET create_cmd == validation.script[i]
                  IN  /\ ContainerIssues(i) =
                            IF create_cmd.options.allow_actions THEN << >>
                            ELSE << ScriptValidationError(
                                       i,
                                       << action_name(create_cmd.body[1].action),
                                          "action in container", create_cmd.name >>,
                                       "Warning") >>
                      /\ (validation.options.allow_actions
                             /\ validation.options.max_nesting_depth >= 1) =>
                            \A k \in DOMAIN validation.errors :
                                validation.errors[k].line = i =>
                                    validation.errors[k].severity # "Error"

\* A validation that allows actions returned for a container without ALLOW
\* ACTIONS whose body is an Action: the statement has a Warning of the rule.
C36_Witness ==
    /\ Validated
    /\ validation.options.allow_actions
    /\ validation.options.max_nesting_depth >= 1
    /\ CreatesWithAction(1)
    /\ ~validation.script[1].options.allow_actions
    /\ ContainerIssues(1) # << >>

\* ------------------------------------------- protected process property
\* The protected names, in lower case.
ProtectedNames ==
    { <<"i", "n", "i", "t">>, S_systemd, <<"k", "e", "r", "n", "e", "l">>,
      <<"l", "a", "u", "n", "c", "h", "d">>,
      <<"w", "i", "n", "d", "o", "w", "s", "e", "r", "v", "e", "r">>,
      <<"l", "o", "g", "i", "n", "w", "i", "n", "d", "o", "w">>,
      <<"k", "e", "r", "n", "e", "l", "_", "t", "a", "s", "k">>,
      <<"s", "y", "s", "l", "o", "g", "d">>, <<"n", "o", "t", "i", "f", "y", "d">> }

\* The name holds a protected name, whatever the case of its letters.
HoldsProtectedName(name) ==
    \E q \in ProtectedNames : str_contains(to_lowercase(name), q)

\* C37: KILL PROCESS never selects a protected process: none is listed in
\* the result, as killed or as would-be-killed, and none leaves the
\* process table, whatever the filter.
C37_ProtectedNeverSelected ==
    [][ ExecuteKill =>
          /\ \A p \in Range(procs) :
                HoldsProtectedName(p.name) => p \in Range(procs')
          /\ last'.ok =>
                \A p \in SelectedProcesses(last'.result) : ~HoldsProtectedName(p.name) ]_vars

\* A KILL PROCESS selected a process while two protected processes, one of
\* them named in another case, passed its filter.
C37_Witness ==
    /\ last.op = "execute_action"
    /\ last.ok
    /\ last.invoked
    /\ pending.source.rule = "kill_cmd"
    /\ last.result.affected_count > 0
    /\ \E p, q \in Range(before.procs) :
          /\ p.name = S_Xinit
          /\ q.name = S_systemd
          /\ \A r \in {p, q} :
                matches_process_where_clause(r, parse_where_clause(pending.source.where))

\* ------------------------------------------------------------ LiveMonitor
\* life::LiveMonitor with one thread in start() and one thread that calls
\* stop() once.  `pc` is the position of the thread in start(), `stop` says
\* whether the call of stop() is still due.
LiveMonitor_new(target) ==
    [pc |-> "start", target |-> target, running |-> FALSE, stop |-> "due",
     last_state |-> Nothing, current_state |-> Nothing, result |-> None]

MonitorStep(next) ==
    /\ monitor' = next
    /\ UNCHANGED <<context, containers, active, dir, procs, clock, pending, last, before,
                   validation, run>>

\* `self.running.store(true, Ordering::SeqCst)`, the first line of start().
Start_store ==
    /\ monitor.pc = "start"
    /\ MonitorStep([monitor EXCEPT !.pc = "check", !.running = TRUE])

\* `while self.running.load(Ordering::SeqCst)`
Start_check ==
    /\ monitor.pc = "check"
    /\ MonitorStep(IF monitor.running
                   THEN [monitor EXCEPT !.pc = "sample"]
                   ELSE [monitor EXCEPT !.pc = "returned", !.result = "Ok"])

\* `self.get_current_state()?` and the decision `should_update`.
Start_sample ==
    /\ monitor.pc = "sample"
    /\ \/ MonitorStep([monitor EXCEPT !.pc = "returned", !.result = "ExecutionError"])
       \/ \E info \in Readings(monitor.target) :
             MonitorStep(
                 [monitor EXCEPT
                     !.current_state = Some(get_current_state(monitor.target, info)),
                     !.pc = IF should_execute(get_current_state(monitor.target, info),
                                              monitor.last_state)
                            THEN "on_update" ELSE "sleep"])

\* `on_update(&current_state)?; last_state = Some(current_state);` for a
\* callback that answers Ok or an error.
Start_on_update ==
    /\ monitor.pc = "on_update"
    /\ \/ MonitorStep([monitor EXCEPT !.pc = "sleep",
                                       !.last_state = monitor.current_state])
       \/ MonitorStep([monitor EXCEPT !.pc = "returned", !.result = "ExecutionError"])

\* `std::thread::sleep(self.interval)`
Start_sleep ==
    /\ monitor.pc = "sleep"
    /\ MonitorStep([monitor EXCEPT !.pc = "check"])

\* stop(): `self.running.store(false, Ordering::SeqCst)`
Stop ==
    /\ monitor.stop = "due"
    /\ MonitorStep([monitor EXCEPT !.running = FALSE, !.stop = "done"])

InitMonitor ==
    /\ context = ContextDefault
    /\ containers = << >>
    /\ active = None
    /\ dir = << >>
    /\ procs = << >>
    /\ clock = 0
    /\ pending = << >>
    /\ last = NoCall
    /\ before = ContextDefault
    /\ validation = Idle
    /\ \E target \in LifeTargets : monitor = LiveMonitor_new(target)
    /\ run = Idle

NextMonitor ==
    Start_store \/ Start_check \/ Start_sample \/ Start_on_update \/ Start_sleep \/ Stop

SpecMonitor == InitMonitor /\ [][NextMonitor]_vars

\* The thread in start() is scheduled and its sleep ends.
SpecMonitorFair ==
    /\ SpecMonitor
    /\ WF_vars(Start_store) /\ WF_vars(Start_check) /\ WF_vars(Start_sample)
    /\ WF_vars(Start_on_update) /\ WF_vars(Start_sleep)

\* ------------------------------------------------- LiveMonitor properties
\* C39: a stop() request is never lost: whenever stop() has been called,
\* before the first flag check of start(), during the sample, the callback
\* or the sleep, start() eventually returns.
C39_StopNeverLost == (monitor.stop = "done") ~> (monitor.pc = "returned")

\* ------------------------------------------------------- WHERE clauses
\* The pairs of a condition_expr node with up to MaxConditions conditions.
MaxConditions == 3

RECURSIVE WherePairs(_)
WherePairs(n) ==
    IF n = 1 THEN { << c >> : c \in ConditionPool }
    ELSE { p \o << op, c >> : p \in WherePairs(n - 1), op \in {"and_op", "or_op"},
                               c \in ConditionPool }

WhereInputs == UNION { WherePairs(n) : n \in 1..MaxConditions }

\* The AST builder is given the WHERE clause of the input.
ParseWhere ==
    /\ last = NoCall
    /\ last' = [op |-> "parse_where_clause", arg |-> pending, ok |-> TRUE, err |-> None,
                built |-> parse_where_clause(pending)]
    /\ UNCHANGED <<context, containers, active, dir, procs, clock, pending, before,
                   validation, monitor, run>>

InitParse ==
    /\ context = ContextDefault
    /\ containers = << >>
    /\ active = None
    /\ dir = << >>
    /\ procs = << >>
    /\ clock = 0
    /\ pending \in WhereInputs
    /\ last = NoCall
    /\ before = ContextDefault
    /\ validation = Idle
    /\ monitor = Idle
    /\ run = Idle

NextParse == ParseWhere

SpecParse == InitParse /\ [][NextParse]_vars

\* The conditions and logical operators of a built filter, read along its
\* links: <<c1, op1, c2, ..., cn>>.
RECURSIVE Chain(_)
Chain(expr) ==
    IF expr.next = Nothing THEN << expr.condition >>
    ELSE << expr.condition, Unwrap(expr.next).op >> \o Chain(Unwrap(expr.next).expr)

\* The same for the written clause, its operators named as the AST names
\* them.
Written(pairs) ==
    [i \in DOMAIN pairs |->
        IF i % 2 = 1 THEN pairs[i] ELSE IF pairs[i] = "and_op" THEN "And" ELSE "Or"]

\* C40: the built filter holds every condition of the written clause, in
\* source order, each linked to the next by its logical operator.
C40_BuilderKeepsEveryCondition ==
    last.op = "parse_where_clause" =>
        /\ Len(last.built.conditions) = 1
        /\ Chain(last.built.conditions[1]) = Written(pending)

====
